---------------------------- MODULE Spec2Model ----------------------------
(***************************************************************************)
(* Model of the secure-channel engine of globalplatform/src/crypto.c.     *)
(*                                                                         *)
(* Bytes are integers.  0..255 are literal byte values.  The block        *)
(* ciphers of OpenSSL are ideal: every distinct (algorithm, key, iv,      *)
(* padded message) the program submits is entered once into the table     *)
(* `oracle`, and byte j of the ciphertext of entry number id is the       *)
(* integer SymByte(id, j) >= 256, so two ciphertext bytes are equal       *)
(* exactly when they come from the same computation.  The padding, the    *)
(* choice of key and iv, the splitting into stages and every length are   *)
(* computed as crypto.c computes them.  Bytes of storage that was never   *)
(* written are negative integers.                                         *)
(***************************************************************************)
EXTENDS Integers, Sequences, FiniteSets, TLC

VARIABLES
    secInfo,                  \* the GP211_SECURITY_INFO of the session
    oracle,                   \* the cipher computations made so far
    calls,                    \* number of calls made on the session
    apduCommand,              \* last call: the command APDU passed in
    capacity,                 \* last call: *wrappedApduCommandLength on entry
    wrappedApduCommand,       \* last call: the output buffer on return
    wrappedApduCommandLength, \* last call: *wrappedApduCommandLength on return
    status,                   \* last call: the OPGP_ERROR_STATUS returned
    prev,                     \* last call: secInfo on entry
    locals,                   \* last call: wrap_command's locals on return
    before,                   \* the call before the last: APDU, status, ICV
    lastCall,                 \* last call: which function, and for a receipt
                              \* or an R-MAC its arguments and locals
    pair                      \* two sessions of one process, each beside the
                              \* same session running alone

vars == <<secInfo, oracle, calls, apduCommand, capacity, wrappedApduCommand,
          wrappedApduCommandLength, status, prev, locals, before, lastCall, pair>>

---------------------------------------------------------------------------
(* Bounds of the model. *)

\* Calls made on one session under Spec.
MaxCalls == 2

---------------------------------------------------------------------------
(* Constants of globalplatform.h, numbered as the GlobalPlatform card     *)
(* specification numbers them: the variant is the value of the parameter   *)
(* "i", the levels are the bits C-MAC 01, C-DECRYPTION 02, R-MAC 10 (hex).  *)
(* wrap_command names no SCP01 variant when it selects the APDU the C-MAC  *)
(* is computed on (lines 1235-1244): SCP01 takes the branch of the SCP02   *)
(* variant with the same value.                                            *)

GP211_SCP01 == 1
GP211_SCP02 == 2
GP211_SCP03 == 3

GP211_SCP01_IMPL_i05 == 5
GP211_SCP01_IMPL_i15 == 21
GP211_SCP02_IMPL_i04 == 4
GP211_SCP02_IMPL_i05 == 5
GP211_SCP02_IMPL_i0A == 10
GP211_SCP02_IMPL_i0B == 11
GP211_SCP02_IMPL_i14 == 20
GP211_SCP02_IMPL_i15 == 21
GP211_SCP02_IMPL_i1A == 26
GP211_SCP02_IMPL_i1B == 27
GP211_SCP02_IMPL_i44 == 68
GP211_SCP02_IMPL_i45 == 69
GP211_SCP02_IMPL_i54 == 84
GP211_SCP02_IMPL_i55 == 85
GP211_SCP03_IMPL_i00 == 0

GP211_SCP01_SECURITY_LEVEL_NO_SECURE_MESSAGING == 0
GP211_SCP01_SECURITY_LEVEL_C_MAC == 1
GP211_SCP01_SECURITY_LEVEL_C_DEC_C_MAC == 3
GP211_SCP02_SECURITY_LEVEL_NO_SECURE_MESSAGING == 0
GP211_SCP02_SECURITY_LEVEL_C_MAC == 1
GP211_SCP02_SECURITY_LEVEL_C_DEC_C_MAC == 3
GP211_SCP02_SECURITY_LEVEL_R_MAC == 16
GP211_SCP02_SECURITY_LEVEL_C_MAC_R_MAC == 17
GP211_SCP02_SECURITY_LEVEL_C_DEC_C_MAC_R_MAC == 19
GP211_SCP03_SECURITY_LEVEL_NO_SECURE_MESSAGING == 0
GP211_SCP03_SECURITY_LEVEL_C_MAC == 1
GP211_SCP03_SECURITY_LEVEL_C_DEC_C_MAC == 3

\* The error codes, by name.
OPGP_ERROR_STATUS_SUCCESS == "OPGP_ERROR_STATUS_SUCCESS"
OPGP_ERROR_CRYPT == "OPGP_ERROR_CRYPT"
OPGP_ERROR_INSUFFICIENT_BUFFER == "OPGP_ERROR_INSUFFICIENT_BUFFER"
OPGP_ERROR_UNRECOGNIZED_APDU_COMMAND == "OPGP_ERROR_UNRECOGNIZED_APDU_COMMAND"
OPGP_ERROR_COMMAND_SECURE_MESSAGING_TOO_LARGE == "OPGP_ERROR_COMMAND_SECURE_MESSAGING_TOO_LARGE"
OPGP_ERROR_SCP03_SECURITY_LEVEL_3_NOT_SUPPORTED == "OPGP_ERROR_SCP03_SECURITY_LEVEL_3_NOT_SUPPORTED"
OPGP_ERROR_VALIDATION_FAILED == "OPGP_ERROR_VALIDATION_FAILED"
GP211_ERROR_VALIDATION_R_MAC == "GP211_ERROR_VALIDATION_R_MAC"
ENOMEM == "ENOMEM"

\* The process did not return: it was terminated after a write beyond an array.
Aborted == "Aborted"
\* No call has been made yet.
NotCalled == "NotCalled"

\* The process-wide constants icv and padding.
icv == <<0, 0, 0, 0, 0, 0, 0, 0>>
padding == <<128, 0, 0, 0, 0, 0, 0, 0>>

---------------------------------------------------------------------------
(* C arithmetic. *)

\* int division and remainder truncate towards zero.
CDiv(a, b) == IF a >= 0 THEN a \div b ELSE -((-a) \div b)
CMod(a, b) == IF a >= 0 THEN a % b ELSE -((-a) % b)

\* A BYTE holds its value modulo 256.
ToByte(n) == n % 256

\* util.h: the unsigned value of a byte.
convert_byte(b) == b % 256

\* b | 0x04 on a byte.
Or04(b) == IF (b \div 4) % 2 = 1 THEN b ELSE b + 4

---------------------------------------------------------------------------
(* Storage. *)

\* A byte of the output buffer that was never written.
Unwritten == -1

\* Byte j of an automatic array that was never initialised; g is the choice
\* the build and the stack contents make.
GarbageByte(g, j) == -(16 * (g + 1) + j)
Garbage(g, n) == [j \in 1..n |-> GarbageByte(g, j - 1)]

\* Byte j of the ciphertext of oracle entry id.
SymByte(id, j) == 256 + 256 * id + j
CtBytes(id, n) == [j \in 1..n |-> SymByte(id, j - 1)]

\* The first n bytes at a pointer p + off, p given as a sequence.
Bytes(p, off, n) == IF n <= 0 THEN <<>> ELSE SubSeq(p, off + 1, off + n)

\* memcpy(dst + off, src, n) into an array dst.
Memcpy(dst, off, src, n) ==
    [i \in 1..Len(dst) |-> IF i > off /\ i <= off + n THEN src[i - off] ELSE dst[i]]

---------------------------------------------------------------------------
(* The ciphers. *)

\* One cipher computation: the entry of q in the table, added when new.
Query(or, q) ==
    IF \E i \in 1..Len(or) : or[i] = q
    THEN [or |-> or, id |-> (CHOOSE i \in 1..Len(or) : or[i] = q) - 1]
    ELSE [or |-> Append(or, q), id |-> Len(or)]

Key(name, n) == <<name, n>>

CryptError(or, out) == [status |-> OPGP_ERROR_CRYPT, out |-> out, or |-> or]

\* The message as the block loops of the cipher functions read it, then the
\* padding they add: always, or only when the length is no multiple of 8.
\* A negative remainder makes EVP_EncryptUpdate fail (inl < 0).
PadAlways(message, messageLength) ==
    Bytes(message, 0, messageLength) \o SubSeq(padding, 1, 8 - CMod(messageLength, 8))
PadIfNeeded(message, messageLength) ==
    IF CMod(messageLength, 8) # 0
    THEN PadAlways(message, messageLength)
    ELSE Bytes(message, 0, messageLength)

calculate_enc_cbc_SCP02(or, key, message, messageLength, old, fail) ==
    IF fail \/ CMod(messageLength, 8) < 0 THEN CryptError(or, old)
    ELSE LET padded == PadAlways(message, messageLength)
             r == Query(or, [alg |-> "des_ede_cbc", key |-> Key(key, 16),
                             iv |-> icv, msg |-> padded])
         IN [status |-> OPGP_ERROR_STATUS_SUCCESS,
             out |-> CtBytes(r.id, Len(padded)), or |-> r.or]

calculate_enc_cbc(or, key, message, messageLength, old, fail) ==
    IF fail \/ CMod(messageLength, 8) < 0 THEN CryptError(or, old)
    ELSE LET padded == PadIfNeeded(message, messageLength)
             r == Query(or, [alg |-> "des_ede_cbc", key |-> Key(key, 16),
                             iv |-> icv, msg |-> padded])
         IN [status |-> OPGP_ERROR_STATUS_SUCCESS,
             out |-> CtBytes(r.id, Len(padded)), or |-> r.or]

calculate_enc_ecb_two_key_triple_des(or, key, message, messageLength, old, fail) ==
    IF fail \/ CMod(messageLength, 8) < 0 THEN CryptError(or, old)
    ELSE LET padded == PadIfNeeded(message, messageLength)
             r == Query(or, [alg |-> "des_ede_ecb", key |-> Key(key, 16),
                             iv |-> <<>>, msg |-> padded])
         IN [status |-> OPGP_ERROR_STATUS_SUCCESS,
             out |-> CtBytes(r.id, Len(padded)), or |-> r.or]

calculate_enc_ecb_single_des(or, key, message, messageLength, old, fail) ==
    IF fail \/ CMod(messageLength, 8) < 0 THEN CryptError(or, old)
    ELSE LET padded == PadIfNeeded(message, messageLength)
             r == Query(or, [alg |-> "des_ecb", key |-> Key(key, 8),
                             iv |-> <<>>, msg |-> padded])
         IN [status |-> OPGP_ERROR_STATUS_SUCCESS,
             out |-> CtBytes(r.id, Len(padded)), or |-> r.or]

\* 3DES-CBC over every block; the MAC is the last block written to mac.
calculate_MAC(or, sessionKey, message, messageLength, iv, old, fail) ==
    IF fail \/ CMod(messageLength, 8) < 0 THEN CryptError(or, old)
    ELSE LET padded == PadAlways(message, messageLength)
             r == Query(or, [alg |-> "des_ede_cbc", key |-> Key(sessionKey, 16),
                             iv |-> iv, msg |-> padded])
         IN [status |-> OPGP_ERROR_STATUS_SUCCESS,
             out |-> Memcpy(old, 0, Bytes(CtBytes(r.id, Len(padded)), Len(padded) - 8, 8), 8),
             or |-> r.or]

\* Single DES-CBC under the left half key over the leading full blocks, then
\* 3DES-CBC over the rest and the padding, chained by mac.
calculate_MAC_des_3des(or, key, message, messageLength, initialICV, old, fail) ==
    IF fail \/ CMod(messageLength, 8) < 0
    THEN CryptError(or, Memcpy(old, 0, initialICV, 8))
    ELSE LET n == CDiv(messageLength, 8)
             r1 == IF n >= 1
                   THEN Query(or, [alg |-> "des_cbc", key |-> Key(key, 8),
                                   iv |-> initialICV, msg |-> Bytes(message, 0, 8 * n)])
                   ELSE [or |-> or, id |-> 0]
             mac1 == IF n >= 1 THEN Bytes(CtBytes(r1.id, 8 * n), 8 * n - 8, 8)
                     ELSE initialICV
             last == Bytes(message, 8 * n, CMod(messageLength, 8))
                         \o SubSeq(padding, 1, 8 - CMod(messageLength, 8))
             r2 == Query(r1.or, [alg |-> "des_ede_cbc", key |-> Key(key, 16),
                                 iv |-> mac1, msg |-> last])
         IN [status |-> OPGP_ERROR_STATUS_SUCCESS,
             out |-> Memcpy(old, 0, CtBytes(r2.id, 8), 8), or |-> r2.or]

\* AES-CMAC over chainingValue || message; 16 bytes.
calculate_CMAC_aes(or, sMacKey, message, messageLength, chainingValue, old, fail) ==
    IF fail THEN CryptError(or, old)
    ELSE LET r == Query(or, [alg |-> "cmac_aes", key |-> Key(sMacKey, 16), iv |-> <<>>,
                             msg |-> Bytes(chainingValue, 0, 16) \o Bytes(message, 0, messageLength)])
         IN [status |-> OPGP_ERROR_STATUS_SUCCESS, out |-> CtBytes(r.id, 16), or |-> r.or]

---------------------------------------------------------------------------
(* wrap_command.  c is the activation of one call: its arguments, its      *)
(* locals, the session it works on and the cipher table.  Each operator    *)
(* below is one stretch of the function body; `done` is set by goto end.   *)

\* What one call leaves to chance: the primitive that fails (if any), the
\* contents of uninitialised storage, and whether a write beyond an array
\* terminates the process or lands outside the function's own objects.
Faults == {"none", "icv", "mac", "enc"}

End(c, st) == [c EXCEPT !.status = st, !.done = TRUE]

\* wrappedApduCommand[i] = v
BufSet(c, i, v) ==
    IF i >= 0 /\ i < c.cap THEN [c EXCEPT !.buf[i + 1] = v]
    ELSE [c EXCEPT !.ub = TRUE]

\* memcpy(wrappedApduCommand + off, src, n)
BufCopy(c, off, src, n) ==
    [c EXCEPT !.buf = [i \in 1..c.cap |->
                          IF i > off /\ i <= off + n THEN src[i - off] ELSE c.buf[i]],
              !.ub = c.ub \/ (n > 0 /\ (off < 0 \/ off + n > c.cap))]

IsNoSecureMessaging(level) ==
    \/ level = GP211_SCP02_SECURITY_LEVEL_NO_SECURE_MESSAGING
    \/ level = GP211_SCP01_SECURITY_LEVEL_NO_SECURE_MESSAGING
    \/ level = GP211_SCP03_SECURITY_LEVEL_NO_SECURE_MESSAGING

Activation(apdu, apduLength, cap, sec, or, nd) ==
    [apdu |-> apdu, apduLen |-> apduLength, cap |-> cap,
     buf |-> [i \in 1..cap |-> Unwritten], outLen |-> cap,
     sec |-> sec, or |-> or, nd |-> nd,
     lc |-> GarbageByte(nd.g, 0), le |-> 0, wrappedLength |-> 0, caseAPDU |-> 0,
     mac |-> Garbage(nd.g, 16), C_MAC_ICV |-> Garbage(nd.g, 8),
     encryption |-> <<>>, encryptionLength |-> 240,
     macInput |-> <<>>, macLength |-> 0, macDone |-> FALSE,
     encInput |-> <<>>, encDone |-> FALSE, headerDone |-> FALSE,
     status |-> NotCalled, done |-> FALSE, ub |-> FALSE]

\* wrap_entry without the pass-through of NO_SECURE_MESSAGING.
wrap_entry_always_secures(c) ==
    IF c.cap < c.apduLen THEN End(c, OPGP_ERROR_INSUFFICIENT_BUFFER)
    ELSE LET c1 == BufCopy(c, 0, c.apdu, c.apduLen) IN
         IF ~c.sec.present
         THEN End([c1 EXCEPT !.outLen = c.apduLen], OPGP_ERROR_STATUS_SUCCESS)
         ELSE IF /\ c.sec.secureChannelProtocol = GP211_SCP03
                 /\ c.sec.securityLevel = GP211_SCP03_SECURITY_LEVEL_C_DEC_C_MAC
         THEN End(c1, OPGP_ERROR_SCP03_SECURITY_LEVEL_3_NOT_SUPPORTED)
         ELSE c1

\* wrap_entry without the rejection of SCP03 with C_DEC_C_MAC.
wrap_entry_takes_SCP03_level_3(c) ==
    IF c.cap < c.apduLen THEN End(c, OPGP_ERROR_INSUFFICIENT_BUFFER)
    ELSE LET c1 == BufCopy(c, 0, c.apdu, c.apduLen) IN
         IF ~c.sec.present
         THEN End([c1 EXCEPT !.outLen = c.apduLen], OPGP_ERROR_STATUS_SUCCESS)
         ELSE IF IsNoSecureMessaging(c.sec.securityLevel)
         THEN End([c1 EXCEPT !.outLen = c.apduLen], OPGP_ERROR_STATUS_SUCCESS)
         ELSE c1

\* Lines 1114-1136: capacity, copy, pass-through, SCP03 level 3.
wrap_entry(c) ==
    IF c.cap < c.apduLen THEN End(c, OPGP_ERROR_INSUFFICIENT_BUFFER)
    ELSE LET c1 == BufCopy(c, 0, c.apdu, c.apduLen) IN
         IF ~c.sec.present
         THEN End([c1 EXCEPT !.outLen = c.apduLen], OPGP_ERROR_STATUS_SUCCESS)
         ELSE IF IsNoSecureMessaging(c.sec.securityLevel)
         THEN End([c1 EXCEPT !.outLen = c.apduLen], OPGP_ERROR_STATUS_SUCCESS)
         ELSE IF /\ c.sec.secureChannelProtocol = GP211_SCP03
                 /\ c.sec.securityLevel = GP211_SCP03_SECURITY_LEVEL_C_DEC_C_MAC
         THEN End(c1, OPGP_ERROR_SCP03_SECURITY_LEVEL_3_NOT_SUPPORTED)
         ELSE c1

\* apduCommand[4]; beyond a shorter APDU the byte read is whatever follows it.
ReadLc(c) == IF Len(c.apdu) >= 5 THEN c.apdu[5] ELSE (IF c.nd.g = 0 THEN 0 ELSE 255)

\* wrap_classify taking every APDU longer than 5 bytes that is no Case 4
\* for a Case 3.
wrap_classify_takes_any_length(c) ==
    IF c.done THEN c
    ELSE IF c.apduLen = 4
    THEN [c EXCEPT !.wrappedLength = 4, !.caseAPDU = 1]
    ELSE IF c.apduLen = 5
    THEN [c EXCEPT !.wrappedLength = 4, !.caseAPDU = 2, !.le = c.apdu[5]]
    ELSE LET lc == ReadLc(c) IN
         IF convert_byte(lc) + 5 + 1 = c.apduLen
         THEN [c EXCEPT !.lc = lc, !.wrappedLength = convert_byte(lc) + 5, !.caseAPDU = 4,
                        !.le = c.apdu[c.apduLen], !.apduLen = c.apduLen - 1]
         ELSE [c EXCEPT !.lc = lc, !.wrappedLength = c.apduLen, !.caseAPDU = 3]

\* Lines 1138-1163: the kind of exchange.
wrap_classify(c) ==
    IF c.done THEN c
    ELSE IF c.apduLen = 4
    THEN [c EXCEPT !.wrappedLength = 4, !.caseAPDU = 1]
    ELSE IF c.apduLen = 5
    THEN [c EXCEPT !.wrappedLength = 4, !.caseAPDU = 2, !.le = c.apdu[5]]
    ELSE LET lc == ReadLc(c) IN
         IF convert_byte(lc) + 5 = c.apduLen
         THEN [c EXCEPT !.lc = lc, !.wrappedLength = convert_byte(lc) + 5, !.caseAPDU = 3]
         ELSE IF convert_byte(lc) + 5 + 1 = c.apduLen
         THEN [c EXCEPT !.lc = lc, !.wrappedLength = convert_byte(lc) + 5, !.caseAPDU = 4,
                        !.le = c.apdu[c.apduLen], !.apduLen = c.apduLen - 1]
         ELSE End([c EXCEPT !.lc = lc], OPGP_ERROR_UNRECOGNIZED_APDU_COMMAND)

\* Lines 1175-1229: the length checks of security level 3 and of level 1.
wrap_check_length(c) ==
    IF c.done THEN c
    ELSE LET level == c.sec.securityLevel
             notSCP03 == c.sec.secureChannelProtocol # GP211_SCP03
             max3 == IF c.caseAPDU = 3
                     THEN (IF notSCP03 THEN 239 + 8 + 5 ELSE 231 + 8 + 5)
                     ELSE (IF notSCP03 THEN 239 + 8 + 5 + 1 ELSE 231 + 8 + 5 + 1)
             max1 == IF c.caseAPDU = 3 THEN 247 + 8 + 5 ELSE 247 + 8 + 5 + 1
         IN IF /\ \/ level = GP211_SCP01_SECURITY_LEVEL_C_DEC_C_MAC
                  \/ level = GP211_SCP02_SECURITY_LEVEL_C_DEC_C_MAC
                  \/ level = GP211_SCP02_SECURITY_LEVEL_C_DEC_C_MAC_R_MAC
                  \/ level = GP211_SCP03_SECURITY_LEVEL_C_DEC_C_MAC
               /\ c.caseAPDU \in {3, 4}
               /\ c.apduLen > max3
            THEN End(c, OPGP_ERROR_COMMAND_SECURE_MESSAGING_TOO_LARGE)
            ELSE IF /\ \/ level = GP211_SCP01_SECURITY_LEVEL_C_MAC
                       \/ level = GP211_SCP02_SECURITY_LEVEL_C_MAC
                       \/ level = GP211_SCP02_SECURITY_LEVEL_C_MAC_R_MAC
                       \/ level = GP211_SCP03_SECURITY_LEVEL_C_MAC
                    /\ c.caseAPDU \in {3, 4}
                    /\ c.apduLen > max1
            THEN End(c, OPGP_ERROR_COMMAND_SECURE_MESSAGING_TOO_LARGE)
            ELSE c

\* Lines 1246-1268 and 1342-1361: make room for the MAC in the header.
wrap_update_header(c) ==
    IF c.caseAPDU \in {1, 2}
    THEN IF c.cap < c.apduLen + 8 + 1 THEN End(c, OPGP_ERROR_INSUFFICIENT_BUFFER)
         ELSE BufSet(BufSet([c EXCEPT !.wrappedLength = c.wrappedLength + 8 + 1,
                                      !.headerDone = TRUE], 4, 8),
                     0, Or04(c.apdu[1]))
    ELSE IF c.cap < c.apduLen + 8 THEN End(c, OPGP_ERROR_INSUFFICIENT_BUFFER)
         ELSE BufSet(BufSet([c EXCEPT !.wrappedLength = c.wrappedLength + 8,
                                      !.headerDone = TRUE], 4, ToByte(c.buf[5] + 8)),
                     0, Or04(c.apdu[1]))

\* Lines 1235-1244: the variants with the C-MAC on the modified APDU.
IsCMacOnModifiedApdu(sec) ==
    \/ sec.secureChannelProtocolImpl \in
          {GP211_SCP02_IMPL_i04, GP211_SCP02_IMPL_i05, GP211_SCP02_IMPL_i14,
           GP211_SCP02_IMPL_i15, GP211_SCP02_IMPL_i55, GP211_SCP02_IMPL_i45,
           GP211_SCP02_IMPL_i54, GP211_SCP02_IMPL_i44}
    \/ /\ sec.secureChannelProtocolImpl = GP211_SCP03_IMPL_i00
       /\ sec.secureChannelProtocol = GP211_SCP03

\* Lines 1337-1340: the variants with the C-MAC on the unmodified APDU.
IsCMacOnUnmodifiedApdu(sec) ==
    sec.secureChannelProtocolImpl \in
        {GP211_SCP02_IMPL_i0A, GP211_SCP02_IMPL_i0B,
         GP211_SCP02_IMPL_i1A, GP211_SCP02_IMPL_i1B}

wrap_modified(c) ==
    IF c.done \/ ~IsCMacOnModifiedApdu(c.sec) THEN c ELSE wrap_update_header(c)

wrap_unmodified(c) ==
    IF c.done \/ ~IsCMacOnUnmodifiedApdu(c.sec) THEN c ELSE wrap_update_header(c)

\* Lines 1273-1278 and 1291: the variants that encrypt the ICV.
IsICVEncrypted(sec) ==
    IF sec.secureChannelProtocol = GP211_SCP02
    THEN sec.secureChannelProtocolImpl \in
             {GP211_SCP02_IMPL_i14, GP211_SCP02_IMPL_i15, GP211_SCP02_IMPL_i1A,
              GP211_SCP02_IMPL_i1B, GP211_SCP02_IMPL_i54, GP211_SCP02_IMPL_i55}
    ELSE /\ sec.secureChannelProtocol = GP211_SCP01
         /\ sec.secureChannelProtocolImpl = GP211_SCP01_IMPL_i15

\* wrap_icv without the SCP01 branch: SCP01 i15 takes lastC_MAC as it is.
wrap_icv_SCP02_only(c) ==
    IF c.done THEN c
    ELSE IF c.sec.secureChannelProtocol \in {GP211_SCP01, GP211_SCP02}
    THEN IF IsICVEncrypted(c.sec) /\ c.sec.secureChannelProtocol = GP211_SCP02
         THEN LET r == calculate_enc_ecb_single_des(c.or, c.sec.C_MACSessionKey,
                            c.sec.lastC_MAC, 8, c.C_MAC_ICV, c.nd.fault = "icv")
                  c1 == [c EXCEPT !.C_MAC_ICV = r.out, !.or = r.or]
              IN IF r.status # OPGP_ERROR_STATUS_SUCCESS THEN End(c1, r.status) ELSE c1
         ELSE [c EXCEPT !.C_MAC_ICV = Bytes(c.sec.lastC_MAC, 0, 8)]
    ELSE c

\* Lines 1271-1302: the ICV of the C-MAC.
wrap_icv(c) ==
    IF c.done THEN c
    ELSE IF c.sec.secureChannelProtocol \in {GP211_SCP01, GP211_SCP02}
    THEN IF IsICVEncrypted(c.sec)
         THEN LET r == IF c.sec.secureChannelProtocol = GP211_SCP02
                       THEN calculate_enc_ecb_single_des(c.or, c.sec.C_MACSessionKey,
                                c.sec.lastC_MAC, 8, c.C_MAC_ICV, c.nd.fault = "icv")
                       ELSE calculate_enc_ecb_two_key_triple_des(c.or, c.sec.C_MACSessionKey,
                                c.sec.lastC_MAC, 8, c.C_MAC_ICV, c.nd.fault = "icv")
                  c1 == [c EXCEPT !.C_MAC_ICV = r.out, !.or = r.or]
              IN IF r.status # OPGP_ERROR_STATUS_SUCCESS THEN End(c1, r.status) ELSE c1
         ELSE [c EXCEPT !.C_MAC_ICV = Bytes(c.sec.lastC_MAC, 0, 8)]
    ELSE c

\* Lines 1304-1328: the MAC over the first wrappedLength-8 bytes of the buffer.
wrap_mac(c) ==
    IF c.done THEN c
    ELSE LET n == c.wrappedLength - 8
             seen == [c EXCEPT !.macInput = Bytes(c.buf, 0, n), !.macLength = n,
                               !.macDone = TRUE]
         IN IF c.sec.secureChannelProtocol = GP211_SCP02
            THEN LET r == calculate_MAC_des_3des(c.or, c.sec.C_MACSessionKey, c.buf, n,
                              c.C_MAC_ICV, c.mac, c.nd.fault = "mac")
                     c1 == [seen EXCEPT !.mac = r.out, !.or = r.or]
                 IN IF r.status # OPGP_ERROR_STATUS_SUCCESS THEN End(c1, r.status) ELSE c1
            ELSE IF c.sec.secureChannelProtocol = GP211_SCP01
            THEN LET r == calculate_MAC(c.or, c.sec.C_MACSessionKey, c.buf, n,
                              c.C_MAC_ICV, c.mac, c.nd.fault = "mac")
                     c1 == [seen EXCEPT !.mac = r.out, !.or = r.or]
                 IN IF r.status # OPGP_ERROR_STATUS_SUCCESS THEN End(c1, r.status) ELSE c1
            ELSE IF /\ c.sec.secureChannelProtocol = GP211_SCP03
                    /\ c.sec.securityLevel = GP211_SCP03_SECURITY_LEVEL_C_MAC
            THEN LET r == calculate_CMAC_aes(c.or, c.sec.C_MACSessionKey, c.buf, n,
                              c.sec.lastC_MAC, c.mac, c.nd.fault = "mac")
                 IN [seen EXCEPT !.mac = r.out, !.or = r.or]  \* the status is dropped
            ELSE c

\* wrap_store_mac appending the MAC without keeping it as chaining value.
wrap_store_mac_forgets(c) ==
    IF c.done THEN c
    ELSE LET c1 == BufCopy(c, c.wrappedLength - 8, c.mac, 8)
         IN IF c.caseAPDU \in {2, 4}
            THEN [BufSet(c1, c.wrappedLength, c.le) EXCEPT !.wrappedLength = c.wrappedLength + 1]
            ELSE c1

\* Lines 1364-1376: store the chaining value, append the MAC and Le.
wrap_store_mac(c) ==
    IF c.done THEN c
    ELSE LET sec1 == IF c.sec.secureChannelProtocol # GP211_SCP03
                     THEN [c.sec EXCEPT !.lastC_MAC = Memcpy(c.sec.lastC_MAC, 0, c.mac, 8)]
                     ELSE IF c.sec.securityLevel = GP211_SCP03_SECURITY_LEVEL_C_MAC
                     THEN [c.sec EXCEPT !.lastC_MAC = Memcpy(c.sec.lastC_MAC, 0, c.mac, 16)]
                     ELSE c.sec
             c1 == BufCopy([c EXCEPT !.sec = sec1], c.wrappedLength - 8, c.mac, 8)
         IN IF c.caseAPDU \in {2, 4}
            THEN [BufSet(c1, c.wrappedLength, c.le) EXCEPT !.wrappedLength = c.wrappedLength + 1]
            ELSE c1

\* wrap_encrypt leaving the length byte out of the SCP01 plaintext.
wrap_encrypt_data_only(c) ==
    IF c.done THEN c
    ELSE IF c.sec.securityLevel \notin
               {GP211_SCP01_SECURITY_LEVEL_C_DEC_C_MAC,
                GP211_SCP02_SECURITY_LEVEL_C_DEC_C_MAC,
                GP211_SCP02_SECURITY_LEVEL_C_DEC_C_MAC_R_MAC}
    THEN c
    ELSE LET c1 == BufSet(c, 4, ToByte(c.buf[5] - 8))
             hasLe == IF c.caseAPDU \in {2, 4} THEN 1 ELSE 0
             scp02 == c.sec.secureChannelProtocol = GP211_SCP02
             off == 5
             n == c.wrappedLength - off - 8 - hasLe
             r == IF scp02
                  THEN calculate_enc_cbc_SCP02(c.or, c.sec.encryptionSessionKey,
                           Bytes(c1.buf, off, n), n, c.encryption, c.nd.fault = "enc")
                  ELSE calculate_enc_cbc(c.or, c.sec.encryptionSessionKey,
                           Bytes(c1.buf, off, n), n, c.encryption, c.nd.fault = "enc")
             encLen == IF r.status = OPGP_ERROR_STATUS_SUCCESS THEN Len(r.out) ELSE 0
             c2 == [c1 EXCEPT !.encryption = r.out, !.encryptionLength = encLen,
                              !.or = r.or, !.encInput = Bytes(c1.buf, off, n),
                              !.encDone = TRUE,
                              !.ub = c1.ub \/ encLen > 240]
             c3 == [c2 EXCEPT !.wrappedLength = encLen + 4 + 1 + 8]
         IN IF r.status # OPGP_ERROR_STATUS_SUCCESS THEN End(c2, r.status)
            ELSE IF c.cap < c3.wrappedLength THEN End(c3, OPGP_ERROR_INSUFFICIENT_BUFFER)
            ELSE LET c4 == BufCopy(c3, 5, c3.encryption, encLen)
                     c5 == BufSet(c4, 4, ToByte(encLen + 8))
                     c6 == BufCopy(c5, encLen + 5, c.mac, 8)
                 IN IF hasLe = 1
                    THEN IF c.cap < c6.wrappedLength + 1
                         THEN End(c6, OPGP_ERROR_INSUFFICIENT_BUFFER)
                         ELSE [BufSet(c6, c6.wrappedLength, c.le)
                                  EXCEPT !.wrappedLength = c6.wrappedLength + 1]
                    ELSE c6

\* Lines 1378-1431: encrypt the data field and rebuild the APDU.
wrap_encrypt(c) ==
    IF c.done THEN c
    ELSE IF c.sec.securityLevel \notin
               {GP211_SCP01_SECURITY_LEVEL_C_DEC_C_MAC,
                GP211_SCP02_SECURITY_LEVEL_C_DEC_C_MAC,
                GP211_SCP02_SECURITY_LEVEL_C_DEC_C_MAC_R_MAC}
    THEN c
    ELSE LET c1 == BufSet(c, 4, ToByte(c.buf[5] - 8))
             hasLe == IF c.caseAPDU \in {2, 4} THEN 1 ELSE 0
             scp02 == c.sec.secureChannelProtocol = GP211_SCP02
             off == IF scp02 THEN 5 ELSE 4
             n == c.wrappedLength - off - 8 - hasLe
             r == IF scp02
                  THEN calculate_enc_cbc_SCP02(c.or, c.sec.encryptionSessionKey,
                           Bytes(c1.buf, off, n), n, c.encryption, c.nd.fault = "enc")
                  ELSE calculate_enc_cbc(c.or, c.sec.encryptionSessionKey,
                           Bytes(c1.buf, off, n), n, c.encryption, c.nd.fault = "enc")
             encLen == IF r.status = OPGP_ERROR_STATUS_SUCCESS THEN Len(r.out) ELSE 0
             c2 == [c1 EXCEPT !.encryption = r.out, !.encryptionLength = encLen,
                              !.or = r.or, !.encInput = Bytes(c1.buf, off, n),
                              !.encDone = TRUE,
                              !.ub = c1.ub \/ encLen > 240]
             c3 == [c2 EXCEPT !.wrappedLength = encLen + 4 + 1 + 8]
         IN IF r.status # OPGP_ERROR_STATUS_SUCCESS THEN End(c2, r.status)
            ELSE IF c.cap < c3.wrappedLength THEN End(c3, OPGP_ERROR_INSUFFICIENT_BUFFER)
            ELSE LET c4 == BufCopy(c3, 5, c3.encryption, encLen)
                     c5 == BufSet(c4, 4, ToByte(encLen + 8))
                     c6 == BufCopy(c5, encLen + 5, c.mac, 8)
                 IN IF hasLe = 1
                    THEN IF c.cap < c6.wrappedLength + 1
                         THEN End(c6, OPGP_ERROR_INSUFFICIENT_BUFFER)
                         ELSE [BufSet(c6, c6.wrappedLength, c.le)
                                  EXCEPT !.wrappedLength = c6.wrappedLength + 1]
                    ELSE c6

\* Lines 1432-1440: the length returned, and the return.
wrap_return(c) ==
    LET c1 == IF c.done THEN c
              ELSE End([c EXCEPT !.outLen = c.wrappedLength], OPGP_ERROR_STATUS_SUCCESS)
    IN IF c1.ub /\ c1.nd.abort THEN [c1 EXCEPT !.status = Aborted] ELSE c1

\* The function body, stretch after stretch.
wrap_command(apdu, apduLength, cap, sec, or, nd) ==
    LET s0 == {Activation(apdu, apduLength, cap, sec, or, nd)}
        s1 == {wrap_entry(c) : c \in s0}
        s2 == {wrap_classify(c) : c \in s1}
        s3 == {wrap_check_length(c) : c \in s2}
        s4 == {wrap_modified(c) : c \in s3}
        s5 == {wrap_icv(c) : c \in s4}
        s6 == {wrap_mac(c) : c \in s5}
        s7 == {wrap_unmodified(c) : c \in s6}
        s8 == {wrap_store_mac(c) : c \in s7}
        s9 == {wrap_encrypt(c) : c \in s8}
    IN CHOOSE r \in {wrap_return(c) : c \in s9} : TRUE

---------------------------------------------------------------------------
(* Cryptograms, session keys and key data fields.  Each operator gives the *)
(* status, the output array and the cipher table; old is what the output   *)
(* array held.                                                             *)

\* AES-CMAC of the message; 16 bytes.
calculate_MAC_aes(or, key, message, messageLength, old, fail) ==
    IF fail THEN CryptError(or, old)
    ELSE LET r == Query(or, [alg |-> "cmac_aes", key |-> Key(key, 16), iv |-> <<>>,
                             msg |-> Bytes(message, 0, messageLength)])
         IN [status |-> OPGP_ERROR_STATUS_SUCCESS, out |-> CtBytes(r.id, 16), or |-> r.or]

\* calculate_card_cryptogram_SCP01 with the challenges in the other order.
calculate_card_cryptogram_SCP01_card_first(or, S_ENCSessionKey, cardChallenge, hostChallenge, cardCryptogram, fail) ==
    LET message == Bytes(cardChallenge, 0, 8) \o Bytes(hostChallenge, 0, 8)
    IN calculate_MAC(or, S_ENCSessionKey, message, 16, icv, cardCryptogram, fail)

\* Lines 173-189.
calculate_card_cryptogram_SCP01(or, S_ENCSessionKey, cardChallenge, hostChallenge, cardCryptogram, fail) ==
    LET message == Bytes(hostChallenge, 0, 8) \o Bytes(cardChallenge, 0, 8)
    IN calculate_MAC(or, S_ENCSessionKey, message, 16, icv, cardCryptogram, fail)

\* Lines 200-220.
calculate_card_cryptogram_SCP02(or, S_ENCSessionKey, sequenceCounter, cardChallenge, hostChallenge, cardCryptogram, fail) ==
    LET message == Bytes(hostChallenge, 0, 8) \o Bytes(sequenceCounter, 0, 2)
                     \o Bytes(cardChallenge, 0, 6)
    IN calculate_MAC(or, S_ENCSessionKey, message, 16, icv, cardCryptogram, fail)

\* memset(derivation_data, 0, 11) and the five bytes behind it.
derivation_head(constant, lengthByte) ==
    [i \in 1..11 |-> 0] \o <<constant, 0, 0, lengthByte, 1>>

\* Lines 230-261.  The local mac goes to cardCryptogram on success only.
calculate_card_cryptogram_SCP03(or, S_MACSessionKey, cardChallenge, hostChallenge, cardCryptogram, fail) ==
    LET derivation_data == derivation_head(0, 64) \o Bytes(hostChallenge, 0, 8)
                             \o Bytes(cardChallenge, 0, 8)
        r == calculate_MAC_aes(or, S_MACSessionKey, derivation_data, 32, Garbage(0, 16), fail)
    IN IF r.status # OPGP_ERROR_STATUS_SUCCESS
       THEN [status |-> r.status, out |-> cardCryptogram, or |-> r.or]
       ELSE [status |-> r.status, out |-> Memcpy(cardCryptogram, 0, r.out, 8), or |-> r.or]

\* Lines 272-307.  derivation_data has 35 bytes; the AID is copied whatever
\* its length, and the MAC reads what was written.
calculate_card_challenge_SCP03(or, S_ENC, sequenceCounter, invokingAID, invokingAIDLength, cardChallenge, nd) ==
    LET derivation_data == derivation_head(2, 64) \o Bytes(sequenceCounter, 0, 3)
                             \o Bytes(invokingAID, 0, invokingAIDLength)
        derivation_data_length == 19 + invokingAIDLength
        ub == derivation_data_length > 35
        r == calculate_MAC_aes(or, S_ENC, derivation_data, derivation_data_length,
                               Garbage(0, 16), nd.fault = "mac")
    IN IF ub /\ nd.abort
       THEN [status |-> Aborted, out |-> cardChallenge, or |-> or, ub |-> ub,
             written |-> derivation_data_length]
       ELSE IF r.status # OPGP_ERROR_STATUS_SUCCESS
       THEN [status |-> r.status, out |-> cardChallenge, or |-> r.or, ub |-> ub,
             written |-> derivation_data_length]
       ELSE [status |-> r.status, out |-> Memcpy(cardChallenge, 0, r.out, 8), or |-> r.or,
             ub |-> ub, written |-> derivation_data_length]

\* Lines 317-335.
calculate_host_cryptogram_SCP01(or, S_ENCSessionKey, cardChallenge, hostChallenge, hostCryptogram, fail) ==
    LET message == Bytes(cardChallenge, 0, 8) \o Bytes(hostChallenge, 0, 8)
    IN calculate_MAC(or, S_ENCSessionKey, message, 16, icv, hostCryptogram, fail)

\* Lines 346-366.
calculate_host_cryptogram_SCP02(or, S_ENCSessionKey, sequenceCounter, cardChallenge, hostChallenge, hostCryptogram, fail) ==
    LET message == Bytes(sequenceCounter, 0, 2) \o Bytes(cardChallenge, 0, 6)
                     \o Bytes(hostChallenge, 0, 8)
    IN calculate_MAC(or, S_ENCSessionKey, message, 16, icv, hostCryptogram, fail)

\* Lines 376-407.
calculate_host_cryptogram_SCP03(or, S_MACSessionKey, cardChallenge, hostChallenge, hostCryptogram, fail) ==
    LET derivation_data == derivation_head(1, 64) \o Bytes(hostChallenge, 0, 8)
                             \o Bytes(cardChallenge, 0, 8)
        r == calculate_MAC_aes(or, S_MACSessionKey, derivation_data, 32, Garbage(0, 16), fail)
    IN IF r.status # OPGP_ERROR_STATUS_SUCCESS
       THEN [status |-> r.status, out |-> hostCryptogram, or |-> r.or]
       ELSE [status |-> r.status, out |-> Memcpy(hostCryptogram, 0, r.out, 8), or |-> r.or]

\* create_session_key_SCP03 with the challenges in the other order.
create_session_key_SCP03_card_first(or, key, derivationConstant, cardChallenge, hostChallenge, sessionKey, fail) ==
    LET derivation_data == derivation_head(derivationConstant, 128)
                             \o Bytes(cardChallenge, 0, 8) \o Bytes(hostChallenge, 0, 8)
    IN calculate_MAC_aes(or, key, derivation_data, 32, sessionKey, fail)

\* Lines 485-510.
create_session_key_SCP03(or, key, derivationConstant, cardChallenge, hostChallenge, sessionKey, fail) ==
    LET derivation_data == derivation_head(derivationConstant, 128)
                             \o Bytes(hostChallenge, 0, 8) \o Bytes(cardChallenge, 0, 8)
    IN calculate_MAC_aes(or, key, derivation_data, 32, sessionKey, fail)

\* The right half of a 16-byte key, as a single DES key.
RightHalf(key) == <<key, 8, 8>>

\* Lines 1733-1803.  Single DES-CBC under the right half key over the
\* leading full blocks; then 3DES-CBC, started from icv, over the rest and
\* the padding.
calculate_MAC_right_des_3des(or, key, message, messageLength, old, fail) ==
    IF fail \/ CMod(messageLength, 8) < 0 THEN CryptError(or, old)
    ELSE LET n == CDiv(messageLength, 8)
             r1 == IF n >= 1
                   THEN Query(or, [alg |-> "des_cbc", key |-> RightHalf(key),
                                   iv |-> icv, msg |-> Bytes(message, 0, 8 * n)])
                   ELSE [or |-> or, id |-> 0]
             rest == Bytes(message, 8 * n, CMod(messageLength, 8))
                         \o SubSeq(padding, 1, 8 - CMod(messageLength, 8))
             r2 == Query(r1.or, [alg |-> "des_ede_cbc", key |-> Key(key, 16),
                                 iv |-> icv, msg |-> rest])
         IN [status |-> OPGP_ERROR_STATUS_SUCCESS,
             out |-> Memcpy(old, 0, CtBytes(r2.id, 8), 8), or |-> r2.or]

\* A key given by its bytes rather than by the name of a session key.
KeyBytes(keyData, n) == <<"bytes", n, 0, Bytes(keyData, 0, n)>>

\* Lines 1018-1087.  cap is *keyDataFieldLength on entry; encrypted_key has
\* 24 bytes.
get_key_data_field(or, sec, keyData, keyDataLength, keyType, isSensitive, cap, nd) ==
    LET sizeNeeded == 1 + 1 + keyDataLength + 1 + (IF isSensitive # 0 THEN 3 ELSE 0)
        c0 == [buf |-> [i \in 1..cap |-> Unwritten], cap |-> cap, ub |-> FALSE,
               status |-> OPGP_ERROR_STATUS_SUCCESS, or |-> or, outLen |-> cap,
               keyCheckValue |-> Garbage(nd.g, 3)]
    IN IF sizeNeeded > cap THEN [c0 EXCEPT !.status = OPGP_ERROR_INSUFFICIENT_BUFFER]
       ELSE LET c1 == BufSet(BufSet(c0, 0, keyType), 1, ToByte(keyDataLength))
                enc == IF isSensitive = 0
                       THEN [status |-> OPGP_ERROR_STATUS_SUCCESS, out |-> keyData, or |-> or]
                       ELSE IF sec.secureChannelProtocolImpl
                                 \in {GP211_SCP02_IMPL_i0B, GP211_SCP02_IMPL_i1B,
                                      GP211_SCP02_IMPL_i1A, GP211_SCP02_IMPL_i0A}
                       THEN calculate_enc_cbc_SCP02(or, sec.dataEncryptionSessionKey, keyData,
                                keyDataLength, Garbage(nd.g, 24), nd.fault = "enc")
                       ELSE calculate_enc_ecb_two_key_triple_des(or,
                                sec.dataEncryptionSessionKey, keyData, keyDataLength,
                                Garbage(nd.g, 24), nd.fault = "enc")
                c2 == [c1 EXCEPT !.or = enc.or,
                                 !.ub = c1.ub \/ (isSensitive # 0 /\ Len(enc.out) > 24)]
            IN IF enc.status # OPGP_ERROR_STATUS_SUCCESS
               THEN [c2 EXCEPT !.status = enc.status]
               ELSE LET c3 == BufSet(BufCopy(c2, 2, enc.out, keyDataLength),
                                     2 + keyDataLength, 3)
                        q == Query(c3.or, [alg |-> "des_ede_ecb", key |-> KeyBytes(keyData, 16),
                                           iv |-> <<>>, msg |-> [i \in 1..8 |-> 0]])
                        kcv == IF nd.fault = "kcv" THEN CryptError(c3.or, Garbage(nd.g, 16))
                               ELSE [status |-> OPGP_ERROR_STATUS_SUCCESS,
                                     out |-> Memcpy(Garbage(nd.g, 16), 0, CtBytes(q.id, 8), 8),
                                     or |-> q.or]
                    IN IF kcv.status # OPGP_ERROR_STATUS_SUCCESS
                       THEN [c3 EXCEPT !.status = kcv.status, !.or = kcv.or]
                       ELSE [BufCopy(c3, 3 + keyDataLength, kcv.out, 3)
                                EXCEPT !.or = kcv.or, !.outLen = 3 + keyDataLength + 3,
                                       !.keyCheckValue = Bytes(kcv.out, 0, 3)]

---------------------------------------------------------------------------
(* Receipts.  nd is what one call leaves to chance: whether malloc or the  *)
(* MAC fails, and what uninitialised storage holds.                        *)

\* An OPGP_ERROR_STATUS that no statement assigned: it reads as success or
\* as something else.
Indeterminate == "Indeterminate"
UnsetStatus(g) == IF g = 0 THEN OPGP_ERROR_STATUS_SUCCESS ELSE Indeterminate

\* p[i] = v
Set(p, i, v) == [p EXCEPT ![i + 1] = v]

\* Lines 958-976.
validate_receipt(or, validationData, validationDataLength, receipt, receiptKey, nd) ==
    LET r == calculate_MAC_des_3des(or, receiptKey, validationData, validationDataLength,
                                    icv, Garbage(nd.g, 8), nd.fault = "mac")
    IN [status |-> IF r.status # OPGP_ERROR_STATUS_SUCCESS THEN r.status
                   ELSE IF Bytes(r.out, 0, 8) # Bytes(receipt, 0, 8)
                   THEN OPGP_ERROR_VALIDATION_FAILED
                   ELSE OPGP_ERROR_STATUS_SUCCESS,
        or |-> r.or, mac |-> r.out]

\* validationData[i++] = 2 ... (BYTE)cardUniqueDataLength, then the memcpy
\* of cardUniqueData, whose destination is validationData itself.
receipt_head(validationData, confirmationCounter, cardUniqueData, cardUniqueDataLength) ==
    LET p0 == Set(validationData, 0, 2)
        p1 == Set(p0, 1, (confirmationCounter \div 256) % 256)
        p2 == Set(p1, 2, confirmationCounter % 256)
        p3 == Set(p2, 3, ToByte(cardUniqueDataLength))
    IN Memcpy(p3, 0, cardUniqueData, cardUniqueDataLength)

\* validationData[i++] = (BYTE)AIDLength, then the memcpy of the AID, whose
\* destination is validationData itself.
receipt_AID(validationData, i, AID, AIDLength) ==
    Memcpy(Set(validationData, i, ToByte(AIDLength)), 0, AID, AIDLength)

\* Lines 978-1016.
validate_delete_receipt(or, confirmationCounter, cardUniqueData, cardUniqueDataLength, receiptKey, receipt, AID, AIDLength, nd) ==
    LET validationDataLength == 1 + 2 + 1 + cardUniqueDataLength + 1 + AIDLength
    IN IF nd.fault = "malloc"
       THEN [status |-> ENOMEM, or |-> or, validationData |-> <<>>]
       ELSE LET p1 == receipt_head(Garbage(nd.g, validationDataLength), confirmationCounter,
                                   cardUniqueData, cardUniqueDataLength)
                p2 == receipt_AID(p1, 4 + cardUniqueDataLength, AID, AIDLength)
                r == validate_receipt(or, p2, validationDataLength, receipt, receiptKey, nd)
            IN [status |-> r.status, or |-> r.or, validationData |-> p2]

\* Lines 1442-1484.  The malloc failure branch assigns no status.
validate_install_receipt(or, confirmationCounter, cardUniqueData, cardUniqueDataLength, receiptKey, receipt, executableLoadFileAID, executableLoadFileAIDLength, applicationAID, applicationAIDLength, nd) ==
    LET validationDataLength == 1 + 2 + 1 + cardUniqueDataLength
                                  + 1 + executableLoadFileAIDLength + 1 + applicationAIDLength
    IN IF nd.fault = "malloc"
       THEN [status |-> UnsetStatus(nd.g), or |-> or, validationData |-> <<>>]
       ELSE LET p1 == receipt_head(Garbage(nd.g, validationDataLength), confirmationCounter,
                                   cardUniqueData, cardUniqueDataLength)
                p2 == receipt_AID(p1, 4 + cardUniqueDataLength, executableLoadFileAID,
                                  executableLoadFileAIDLength)
                p3 == receipt_AID(p2, 4 + cardUniqueDataLength + 1 + executableLoadFileAIDLength,
                                  applicationAID, applicationAIDLength)
                r == validate_receipt(or, p3, validationDataLength, receipt, receiptKey, nd)
            IN [status |-> r.status, or |-> r.or, validationData |-> p3]

\* Lines 1486-1528.
validate_load_receipt(or, confirmationCounter, cardUniqueData, cardUniqueDataLength, receiptKey, receipt, executableLoadFileAID, executableLoadFileAIDLength, securityDomainAID, securityDomainAIDLength, nd) ==
    LET validationDataLength == 1 + 2 + 1 + cardUniqueDataLength
                                  + 1 + executableLoadFileAIDLength + 1 + securityDomainAIDLength
    IN IF nd.fault = "malloc"
       THEN [status |-> ENOMEM, or |-> or, validationData |-> <<>>]
       ELSE LET p1 == receipt_head(Garbage(nd.g, validationDataLength), confirmationCounter,
                                   cardUniqueData, cardUniqueDataLength)
                p2 == receipt_AID(p1, 4 + cardUniqueDataLength, executableLoadFileAID,
                                  executableLoadFileAIDLength)
                p3 == receipt_AID(p2, 4 + cardUniqueDataLength + 1 + executableLoadFileAIDLength,
                                  securityDomainAID, securityDomainAIDLength)
                r == validate_receipt(or, p3, validationDataLength, receipt, receiptKey, nd)
            IN [status |-> r.status, or |-> r.or, validationData |-> p3]

---------------------------------------------------------------------------
(* The R-MAC. *)

\* Lines 1541-1591.  mac is the caller's array, written only by the MAC.
GP211_calculate_R_MAC(or, commandHeader, commandData, commandDataLength, responseData, responseDataLength, statusWord, sec, mac, nd) ==
    IF nd.fault = "malloc"
    THEN [status |-> ENOMEM, or |-> or, mac |-> mac, r_MacData |-> <<>>]
    ELSE LET r_MacDataLength == 4 + 1 + commandDataLength + 1 + responseDataLength + 2
             r_MacData == Bytes(commandHeader, 0, 4)
                            \o <<ToByte(commandDataLength)>>
                            \o Bytes(commandData, 0, commandDataLength)
                            \o <<responseDataLength % 256>>
                            \o Bytes(responseData, 0, responseDataLength)
                            \o Bytes(statusWord, 0, 2)
             r == calculate_MAC_des_3des(or, sec.R_MACSessionKey, r_MacData, r_MacDataLength,
                                         sec.lastR_MAC, mac, nd.fault = "mac")
         IN [status |-> r.status, or |-> r.or, mac |-> r.out, r_MacData |-> r_MacData]

\* The 8 bytes at responseData + responseDataLength - 10; those in front of
\* the response, when it is shorter than 10 bytes, are whatever lies there.
ReceivedRMac(responseData, responseDataLength, g) ==
    IF responseDataLength >= 10 THEN Bytes(responseData, responseDataLength - 10, 8)
    ELSE [j \in 1..(10 - responseDataLength) |-> GarbageByte(g, 7 + j)]
            \o Bytes(responseData, 0, responseDataLength - 2)

\* Lines 1593-1659.  stack is what the array mac holds on entry.  The status
\* of GP211_calculate_R_MAC is dropped.
GP211_check_R_MAC(or, apdu, apduCommandLength, responseData, responseDataLength, sec, stack, nd) ==
    LET skip == [status |-> OPGP_ERROR_STATUS_SUCCESS, sec |-> sec, or |-> or,
                 mac |-> stack, r_MacData |-> <<>>, caseAPDU |-> 0, computed |-> FALSE,
                 computation |-> OPGP_ERROR_STATUS_SUCCESS]
    IN IF ~sec.present THEN skip
       ELSE IF /\ sec.securityLevel # GP211_SCP02_SECURITY_LEVEL_C_DEC_C_MAC_R_MAC
               /\ sec.securityLevel # GP211_SCP02_SECURITY_LEVEL_R_MAC
               /\ sec.securityLevel # GP211_SCP02_SECURITY_LEVEL_C_MAC_R_MAC
       THEN skip
       ELSE LET lc == IF apduCommandLength <= 5 THEN 0 ELSE apdu[5]
                caseAPDU == IF apduCommandLength = 4 THEN 1
                            ELSE IF apduCommandLength = 5 THEN 2
                            ELSE IF convert_byte(lc) + 5 = apduCommandLength THEN 3
                            ELSE IF convert_byte(lc) + 5 + 1 = apduCommandLength THEN 4
                            ELSE 0
            IN IF caseAPDU = 0
               THEN [skip EXCEPT !.status = OPGP_ERROR_UNRECOGNIZED_APDU_COMMAND]
               ELSE LET le == responseDataLength - 2
                        r == GP211_calculate_R_MAC(or, apdu, apdu, lc, responseData, le,
                                 Bytes(responseData, responseDataLength - 2, 2), sec, stack, nd)
                        seen == [skip EXCEPT !.or = r.or, !.mac = r.mac,
                                             !.r_MacData = r.r_MacData,
                                             !.caseAPDU = caseAPDU, !.computed = TRUE,
                                             !.computation = r.status]
                    IN IF Bytes(r.mac, 0, 8)
                             # ReceivedRMac(responseData, responseDataLength, nd.g)
                       THEN [seen EXCEPT !.status = GP211_ERROR_VALIDATION_R_MAC]
                       ELSE [seen EXCEPT !.sec.lastR_MAC = Bytes(r.mac, 0, 8)]

---------------------------------------------------------------------------
(* Sessions. *)

\* A GP211_SECURITY_INFO as mutual authentication leaves it: the chaining
\* values are zero.  The session keys are named, not valued.
Session(protocol, impl, level) ==
    [present |-> TRUE,
     secureChannelProtocol |-> protocol,
     secureChannelProtocolImpl |-> impl,
     securityLevel |-> level,
     encryptionSessionKey |-> "encryptionSessionKey",
     C_MACSessionKey |-> "C_MACSessionKey",
     R_MACSessionKey |-> "R_MACSessionKey",
     dataEncryptionSessionKey |-> "dataEncryptionSessionKey",
     lastC_MAC |-> icv \o icv,
     lastR_MAC |-> icv]

\* secInfo == NULL: no field of it may be read.
NoSession == [Session(0, 0, 0) EXCEPT !.present = FALSE]

SCP01Impls == {GP211_SCP01_IMPL_i05, GP211_SCP01_IMPL_i15}
SCP02Impls == {GP211_SCP02_IMPL_i04, GP211_SCP02_IMPL_i05, GP211_SCP02_IMPL_i0A,
               GP211_SCP02_IMPL_i0B, GP211_SCP02_IMPL_i14, GP211_SCP02_IMPL_i15,
               GP211_SCP02_IMPL_i1A, GP211_SCP02_IMPL_i1B, GP211_SCP02_IMPL_i44,
               GP211_SCP02_IMPL_i45, GP211_SCP02_IMPL_i54, GP211_SCP02_IMPL_i55}
SCP01Levels == {GP211_SCP01_SECURITY_LEVEL_NO_SECURE_MESSAGING,
                GP211_SCP01_SECURITY_LEVEL_C_MAC,
                GP211_SCP01_SECURITY_LEVEL_C_DEC_C_MAC}
SCP02Levels == {GP211_SCP02_SECURITY_LEVEL_NO_SECURE_MESSAGING,
                GP211_SCP02_SECURITY_LEVEL_C_MAC,
                GP211_SCP02_SECURITY_LEVEL_C_DEC_C_MAC,
                GP211_SCP02_SECURITY_LEVEL_R_MAC,
                GP211_SCP02_SECURITY_LEVEL_C_MAC_R_MAC,
                GP211_SCP02_SECURITY_LEVEL_C_DEC_C_MAC_R_MAC}
\* SCP03 names three levels; the R-MAC levels of the protocol have the
\* values of the SCP02 ones.
SCP03Levels == {GP211_SCP03_SECURITY_LEVEL_NO_SECURE_MESSAGING,
                GP211_SCP03_SECURITY_LEVEL_C_MAC,
                GP211_SCP03_SECURITY_LEVEL_C_DEC_C_MAC,
                GP211_SCP02_SECURITY_LEVEL_C_MAC_R_MAC,
                GP211_SCP02_SECURITY_LEVEL_C_DEC_C_MAC_R_MAC}

SessionsOf(impls02) ==
    {Session(GP211_SCP01, i, l) : i \in SCP01Impls, l \in SCP01Levels}
    \cup {Session(GP211_SCP02, i, l) : i \in impls02, l \in SCP02Levels}
    \cup {Session(GP211_SCP03, GP211_SCP03_IMPL_i00, l) : l \in SCP03Levels}
    \cup {NoSession}

\* Every session a caller can hold.
AllSessions == SessionsOf(SCP02Impls)

\* One SCP02 variant of each kind: C-MAC on the modified or the unmodified
\* APDU, ICV plain or encrypted.
ChainSessions ==
    SessionsOf({GP211_SCP02_IMPL_i04, GP211_SCP02_IMPL_i15,
                GP211_SCP02_IMPL_i0A, GP211_SCP02_IMPL_i1B})

---------------------------------------------------------------------------
(* Command APDUs. *)

Header(cla) == <<cla, 130, 0, 0>>
DataByte(i) == 160 + (i % 8)

\* cla ins p1 p2, then the byte lcByte and what follows it, n bytes in all.
ApduOfLength(cla, lcByte, n) ==
    [i \in 1..n |-> IF i <= 4 THEN Header(cla)[i]
                    ELSE IF i = 5 THEN lcByte ELSE DataByte(i)]

Case1(cla) == Header(cla)
Case2(cla, le) == Header(cla) \o <<le>>
Case3(cla, lc) == ApduOfLength(cla, lc, lc + 5)
Case4(cla, lc, le) == ApduOfLength(cla, lc, lc + 5) \o <<le>>

\* The APDUs of a session under Spec: the four cases and a misshapen one.
ChainApdus ==
    {Case1(128), Case2(128, 0), Case3(128, 8), Case4(132, 3, 16),
     ApduOfLength(128, 5, 7)}

\* Data lengths at the edges of the length checks and of the padding.
EdgeLc == {0, 2, 3, 8, 239, 240, 241, 247, 248, 249, 255}

\* The APDUs of a single call: every case at every edge, and misshapen ones.
AllApdus ==
    {Case1(128), Case1(132), Case2(128, 0)}
    \cup {Case3(128, lc) : lc \in EdgeLc}
    \cup {Case4(128, lc, 16) : lc \in EdgeLc}
    \cup {SubSeq(Header(128), 1, n) : n \in 0..3}
    \cup {ApduOfLength(128, 5, 7), ApduOfLength(128, 8, 12),
          ApduOfLength(128, 255, 262), ApduOfLength(128, 0, 7)}

\* The capacity of the output buffer, as room beyond the APDU's length.
ChainRoom == {24}
AllRoom == {-1, 0, 7, 8, 9, 24}

Choice(fault, g, abort) == [fault |-> fault, g |-> g, abort |-> abort]
ChainChoices == {Choice("none", 0, FALSE), Choice("none", 1, FALSE),
                 Choice("mac", 0, FALSE)}
AllChoices == {Choice(f, 0, FALSE) : f \in Faults}
              \cup {Choice("none", 1, FALSE), Choice("none", 0, TRUE)}

---------------------------------------------------------------------------
(* The state machine. *)

NoCall == [op |-> "none"]
NoPair == [active |-> FALSE]
NoLocals == [caseAPDU |-> 0, wrappedLength |-> 0, le |-> 0, mac |-> <<>>,
             C_MAC_ICV |-> <<>>, macInput |-> <<>>, macLength |-> 0,
             macDone |-> FALSE, encInput |-> <<>>, encDone |-> FALSE,
             encryption |-> <<>>, headerDone |-> FALSE, ub |-> FALSE,
             fault |-> "none"]

InitWith(sessions) ==
    /\ secInfo \in sessions
    /\ oracle = <<>>
    /\ calls = 0
    /\ apduCommand = <<>>
    /\ capacity = 0
    /\ wrappedApduCommand = <<>>
    /\ wrappedApduCommandLength = 0
    /\ status = NotCalled
    /\ prev = secInfo
    /\ locals = NoLocals
    /\ before = [apduCommand |-> <<>>, status |-> NotCalled, C_MAC_ICV |-> <<>>,
                 mac |-> <<>>]
    /\ lastCall = NoCall
    /\ pair = NoPair

Init == InitWith(ChainSessions)
InitOne == InitWith(AllSessions)

\* The wrapped APDU handed back, and the 8 bytes in the place of its C-MAC:
\* the last ones, before Le when there is one.
Output ==
    [i \in 1..wrappedApduCommandLength |->
        IF i <= Len(wrappedApduCommand) THEN wrappedApduCommand[i] ELSE Unwritten]
HasLe == locals.caseAPDU \in {2, 4}
AppendedMac ==
    LET off == wrappedApduCommandLength - 8 - (IF HasLe THEN 1 ELSE 0)
    IN IF off >= 0 /\ off + 8 <= Len(wrappedApduCommand)
       THEN Bytes(wrappedApduCommand, off, 8) ELSE <<>>

\* One call of wrap_command on the session.
WrapCommand(apdus, room, choices) ==
    /\ status # Aborted
    /\ \E a \in apdus, d \in room, nd \in choices :
          /\ Len(a) + d >= 0
          /\ \E c \in {wrap_command(a, Len(a), Len(a) + d, secInfo, oracle, nd)} :
             /\ secInfo' = c.sec
             /\ oracle' = c.or
             /\ calls' = calls + 1
             /\ apduCommand' = a
             /\ capacity' = Len(a) + d
             /\ wrappedApduCommand' = c.buf
             /\ wrappedApduCommandLength' = c.outLen
             /\ status' = c.status
             /\ prev' = secInfo
             /\ locals' = [caseAPDU |-> c.caseAPDU, wrappedLength |-> c.wrappedLength,
                           le |-> c.le, mac |-> c.mac, C_MAC_ICV |-> c.C_MAC_ICV,
                           macInput |-> c.macInput, macLength |-> c.macLength,
                           macDone |-> c.macDone, encInput |-> c.encInput,
                           encDone |-> c.encDone, encryption |-> c.encryption,
                           headerDone |-> c.headerDone, ub |-> c.ub,
                           fault |-> nd.fault]
             /\ before' = [apduCommand |-> apduCommand, status |-> status,
                           C_MAC_ICV |-> locals.C_MAC_ICV, mac |-> AppendedMac]
             /\ lastCall' = [op |-> "wrap_command"]
             /\ UNCHANGED pair

\* A session: calls one after the other.
Next == calls < MaxCalls /\ WrapCommand(ChainApdus, ChainRoom, ChainChoices)
Spec == Init /\ [][Next]_vars

\* A single call on a fresh session, over every session and APDU shape.
NextOne == calls < 1 /\ WrapCommand(AllApdus, AllRoom, AllChoices)
SpecOne == InitOne /\ [][NextOne]_vars

---------------------------------------------------------------------------
(* Receipts of the card. *)

ReceiptKey == "receiptKey"

\* The Retail MAC of msg, as the card computes it with the same ciphers.
RetailMac(or, key, iv, msg) == calculate_MAC_des_3des(or, key, msg, Len(msg), iv, iv, FALSE)

\* The data a card signs: 02, the confirmation counter, then the card unique
\* data and each AID behind its length.
LengthPrefixed(field) == <<Len(field)>> \o field
CardValidationData(counter, uid, aids) ==
    <<2, (counter \div 256) % 256, counter % 256>> \o LengthPrefixed(uid)
        \o LengthPrefixed(aids[1])
        \o (IF Len(aids) = 2 THEN LengthPrefixed(aids[2]) ELSE <<>>)

\* The receipt handed to the caller: the card's, or one with a byte changed.
CardReceipt(or, counter, uid, aids, genuine) ==
    LET card == RetailMac(or, ReceiptKey, icv, CardValidationData(counter, uid, aids))
    IN [or |-> card.or,
        receipt |-> IF genuine THEN Bytes(card.out, 0, 8)
                    ELSE Set(Bytes(card.out, 0, 8), 0, 0)]

Counters == {258, 66051}
UniqueData == {<<>>, <<193, 194>>, [i \in 1..10 |-> 192 + i]}
AIDs == {<<>>, <<160, 0, 0, 0, 3>>, <<160, 0, 0, 1, 81, 0, 0>>}
ReceiptChoices == {[fault |-> "none", g |-> 0], [fault |-> "none", g |-> 1],
                   [fault |-> "malloc", g |-> 0], [fault |-> "malloc", g |-> 1],
                   [fault |-> "mac", g |-> 0]}

ReceiptReturn(op, counter, uid, aids, receipt, nd, r) ==
    /\ status' = r.status
    /\ oracle' = r.or
    /\ calls' = calls + 1
    /\ prev' = secInfo
    /\ lastCall' = [op |-> op, confirmationCounter |-> counter, cardUniqueData |-> uid,
                    AIDs |-> aids, receipt |-> receipt,
                    validationData |-> r.validationData, fault |-> nd.fault]
    /\ UNCHANGED <<secInfo, apduCommand, capacity, wrappedApduCommand,
                   wrappedApduCommandLength, locals, before, pair>>

ValidateDeleteReceipt ==
    \E counter \in Counters, uid \in UniqueData, aid \in AIDs,
       genuine \in BOOLEAN, nd \in ReceiptChoices :
        \E card \in {CardReceipt(oracle, counter, uid, <<aid>>, genuine)} :
            \E r \in {validate_delete_receipt(card.or, counter, uid, Len(uid), ReceiptKey,
                                              card.receipt, aid, Len(aid), nd)} :
                ReceiptReturn("validate_delete_receipt", counter, uid, <<aid>>,
                              card.receipt, nd, r)

ValidateInstallReceipt ==
    \E counter \in Counters, uid \in UniqueData, aid1 \in AIDs, aid2 \in AIDs,
       genuine \in BOOLEAN, nd \in ReceiptChoices :
        \E card \in {CardReceipt(oracle, counter, uid, <<aid1, aid2>>, genuine)} :
            \E r \in {validate_install_receipt(card.or, counter, uid, Len(uid), ReceiptKey,
                                               card.receipt, aid1, Len(aid1),
                                               aid2, Len(aid2), nd)} :
                ReceiptReturn("validate_install_receipt", counter, uid, <<aid1, aid2>>,
                              card.receipt, nd, r)

ValidateLoadReceipt ==
    \E counter \in Counters, uid \in UniqueData, aid1 \in AIDs, aid2 \in AIDs,
       genuine \in BOOLEAN, nd \in ReceiptChoices :
        \E card \in {CardReceipt(oracle, counter, uid, <<aid1, aid2>>, genuine)} :
            \E r \in {validate_load_receipt(card.or, counter, uid, Len(uid), ReceiptKey,
                                            card.receipt, aid1, Len(aid1),
                                            aid2, Len(aid2), nd)} :
                ReceiptReturn("validate_load_receipt", counter, uid, <<aid1, aid2>>,
                              card.receipt, nd, r)

\* One receipt validated.
InitReceipts == InitWith({NoSession})
NextReceipts ==
    calls < 1 /\ (ValidateDeleteReceipt \/ ValidateInstallReceipt \/ ValidateLoadReceipt)
SpecReceipts == InitReceipts /\ [][NextReceipts]_vars

---------------------------------------------------------------------------
(* Responses under an R-MAC. *)

\* Sessions with and without an R-MAC level.
RMacSessions ==
    {Session(GP211_SCP02, GP211_SCP02_IMPL_i15, l) :
        l \in {GP211_SCP02_SECURITY_LEVEL_C_MAC, GP211_SCP02_SECURITY_LEVEL_R_MAC,
               GP211_SCP02_SECURITY_LEVEL_C_MAC_R_MAC,
               GP211_SCP02_SECURITY_LEVEL_C_DEC_C_MAC_R_MAC}}
    \cup {Session(GP211_SCP01, GP211_SCP01_IMPL_i05, GP211_SCP01_SECURITY_LEVEL_C_MAC),
          Session(GP211_SCP03, GP211_SCP03_IMPL_i00, GP211_SCP03_SECURITY_LEVEL_C_MAC),
          NoSession}

RMacApdus == {Case2(128, 0), Case3(128, 2), ApduOfLength(128, 5, 7)}

\* The R-MAC field of a response: the session's chaining value, the value
\* that the check computes over a response carrying it, or the MAC that the
\* check before computed.
ReceivedTags ==
    {Bytes(secInfo.lastR_MAC, 0, 8), CtBytes(Len(oracle) + 1, 8)}
    \cup (IF lastCall.op = "GP211_check_R_MAC" /\ lastCall.computation = OPGP_ERROR_STATUS_SUCCESS
             /\ lastCall.computed
          THEN {Bytes(lastCall.mac, 0, 8)} ELSE {})

\* Response data, R-MAC and status word 90 00; or a bare status word.
Responses == {<<209, 210>> \o tag \o <<144, 0>> : tag \in ReceivedTags} \cup {<<106, 130>>}

\* The array mac on entry holds arbitrary bytes, or those the same function
\* left there in the call before.
RMacChoices == {[fault |-> "none", g |-> 0], [fault |-> "mac", g |-> 0],
                [fault |-> "malloc", g |-> 0], [fault |-> "malloc", g |-> 1]}
StackOf(nd) ==
    IF nd.g = 1 /\ lastCall.op = "GP211_check_R_MAC" THEN lastCall.mac
    ELSE Garbage(nd.g, 8)

\* One call of GP211_check_R_MAC on the session.
CheckRMAC ==
    \E a \in RMacApdus, responseData \in Responses, nd \in RMacChoices :
        \E r \in {GP211_check_R_MAC(oracle, a, Len(a), responseData, Len(responseData),
                                    secInfo, StackOf(nd), nd)} :
            /\ secInfo' = r.sec
            /\ oracle' = r.or
            /\ calls' = calls + 1
            /\ apduCommand' = a
            /\ status' = r.status
            /\ prev' = secInfo
            /\ lastCall' = [op |-> "GP211_check_R_MAC", responseData |-> responseData,
                            mac |-> r.mac, r_MacData |-> r.r_MacData,
                            caseAPDU |-> r.caseAPDU, computed |-> r.computed,
                            computation |-> r.computation, fault |-> nd.fault]
            /\ UNCHANGED <<capacity, wrappedApduCommand, wrappedApduCommandLength,
                           locals, before, pair>>

\* Commands wrapped and responses checked on one session.
InitRMac == InitWith(RMacSessions)
NextRMac ==
    /\ calls < MaxCalls
    /\ \/ CheckRMAC
       \/ WrapCommand({Case3(128, 2)}, ChainRoom,
                      {Choice("none", 0, FALSE), Choice("mac", 0, FALSE)})
SpecRMac == InitRMac /\ [][NextRMac]_vars

\* The cryptogram, key and key data field functions, one call each.
Run(b, n) == [i \in 1..n |-> b + i]
HostChallenges == {Run(16, 8), Run(32, 8)}
CardChallenges == {Run(48, 8), Run(64, 8)}
SequenceCounters == {<<0, 1>>, <<0, 2>>}
InvokingAIDs == {Run(160, 5), Run(160, 16), Run(160, 17)}
DerivationConstants == {4, 6, 7}
RightMacMessages == {Run(b, n) : b \in {80, 96}, n \in {5, 8, 13, 16}}
KeySessions == {Session(GP211_SCP02, GP211_SCP02_IMPL_i15, GP211_SCP02_SECURITY_LEVEL_C_MAC),
                Session(GP211_SCP02, GP211_SCP02_IMPL_i0B, GP211_SCP02_SECURITY_LEVEL_C_MAC)}
KeyDataLengths == {16, 24}
KeyFieldRoom == {2, 3, 5, 6, 8}
KeyChoices == {Choice("none", 0, FALSE), Choice("enc", 0, FALSE), Choice("kcv", 0, FALSE)}
ChallengeChoices == {Choice("none", 0, FALSE), Choice("none", 0, TRUE),
                     Choice("mac", 0, FALSE)}

KeyReturn(r, call) ==
    /\ status' = r.status
    /\ oracle' = r.or
    /\ calls' = calls + 1
    /\ prev' = secInfo
    /\ lastCall' = call
    /\ UNCHANGED <<secInfo, apduCommand, capacity, wrappedApduCommand,
                   wrappedApduCommandLength, locals, before, pair>>

CardCryptogramSCP01 ==
    \E card \in CardChallenges, host \in HostChallenges, fail \in BOOLEAN :
        \E r \in {calculate_card_cryptogram_SCP01(oracle, "S_ENC", card, host,
                                                  Garbage(0, 8), fail)} :
            KeyReturn(r, [op |-> "calculate_card_cryptogram_SCP01", key |-> "S_ENC",
                          cardChallenge |-> card, hostChallenge |-> host,
                          sequenceCounter |-> <<>>, out |-> r.out, fail |-> fail])

HostCryptogramSCP01 ==
    \E card \in CardChallenges, host \in HostChallenges, fail \in BOOLEAN :
        \E r \in {calculate_host_cryptogram_SCP01(oracle, "S_ENC", card, host,
                                                  Garbage(0, 8), fail)} :
            KeyReturn(r, [op |-> "calculate_host_cryptogram_SCP01", key |-> "S_ENC",
                          cardChallenge |-> card, hostChallenge |-> host,
                          sequenceCounter |-> <<>>, out |-> r.out, fail |-> fail])

CardCryptogramSCP02 ==
    \E card \in CardChallenges, host \in HostChallenges, seq \in SequenceCounters,
       fail \in BOOLEAN :
        \E r \in {calculate_card_cryptogram_SCP02(oracle, "S_ENC", seq, Bytes(card, 0, 6),
                                                  host, Garbage(0, 8), fail)} :
            KeyReturn(r, [op |-> "calculate_card_cryptogram_SCP02", key |-> "S_ENC",
                          cardChallenge |-> Bytes(card, 0, 6), hostChallenge |-> host,
                          sequenceCounter |-> seq, out |-> r.out, fail |-> fail])

HostCryptogramSCP02 ==
    \E card \in CardChallenges, host \in HostChallenges, seq \in SequenceCounters,
       fail \in BOOLEAN :
        \E r \in {calculate_host_cryptogram_SCP02(oracle, "S_ENC", seq, Bytes(card, 0, 6),
                                                  host, Garbage(0, 8), fail)} :
            KeyReturn(r, [op |-> "calculate_host_cryptogram_SCP02", key |-> "S_ENC",
                          cardChallenge |-> Bytes(card, 0, 6), hostChallenge |-> host,
                          sequenceCounter |-> seq, out |-> r.out, fail |-> fail])

CreateSessionKeySCP03 ==
    \E card \in CardChallenges, host \in HostChallenges, constant \in DerivationConstants,
       fail \in BOOLEAN :
        \E r \in {create_session_key_SCP03(oracle, "key", constant, card, host,
                                           Garbage(0, 16), fail)} :
            KeyReturn(r, [op |-> "create_session_key_SCP03", key |-> "key",
                          constant |-> constant, cardChallenge |-> card,
                          hostChallenge |-> host, out |-> r.out, fail |-> fail])

CardCryptogramSCP03 ==
    \E card \in CardChallenges, host \in HostChallenges, fail \in BOOLEAN :
        \E r \in {calculate_card_cryptogram_SCP03(oracle, "S_MAC", card, host,
                                                  Garbage(0, 8), fail)} :
            KeyReturn(r, [op |-> "calculate_card_cryptogram_SCP03", key |-> "S_MAC",
                          constant |-> 0, cardChallenge |-> card,
                          hostChallenge |-> host, out |-> r.out, fail |-> fail])

HostCryptogramSCP03 ==
    \E card \in CardChallenges, host \in HostChallenges, fail \in BOOLEAN :
        \E r \in {calculate_host_cryptogram_SCP03(oracle, "S_MAC", card, host,
                                                  Garbage(0, 8), fail)} :
            KeyReturn(r, [op |-> "calculate_host_cryptogram_SCP03", key |-> "S_MAC",
                          constant |-> 1, cardChallenge |-> card,
                          hostChallenge |-> host, out |-> r.out, fail |-> fail])

CardChallengeSCP03 ==
    \E aid \in InvokingAIDs, seq \in SequenceCounters, nd \in ChallengeChoices :
        \E r \in {calculate_card_challenge_SCP03(oracle, "S_ENC", <<0>> \o seq, aid,
                                                 Len(aid), Garbage(0, 8), nd)} :
            KeyReturn(r, [op |-> "calculate_card_challenge_SCP03",
                          invokingAID |-> aid, out |-> r.out, ub |-> r.ub,
                          written |-> r.written, fault |-> nd.fault])

MACRightDes3Des ==
    \E message \in RightMacMessages, fail \in BOOLEAN :
        \E r \in {calculate_MAC_right_des_3des(oracle, "key", message, Len(message),
                                               Garbage(0, 8), fail)} :
            KeyReturn(r, [op |-> "calculate_MAC_right_des_3des", key |-> "key",
                          message |-> message, out |-> r.out, fail |-> fail])

GetKeyDataField ==
    \E n \in KeyDataLengths, isSensitive \in {0, 1}, room \in KeyFieldRoom,
       nd \in KeyChoices :
        \E r \in {get_key_data_field(oracle, secInfo, Run(112, n), n, 128, isSensitive,
                                     n + room, nd)} :
            KeyReturn(r, [op |-> "get_key_data_field", keyData |-> Run(112, n),
                          isSensitive |-> isSensitive, cap |-> n + room,
                          keyDataField |-> r.buf, keyDataFieldLength |-> r.outLen,
                          keyCheckValue |-> r.keyCheckValue, ub |-> r.ub,
                          fault |-> nd.fault])

InitKeys == InitWith(KeySessions)
NextKeys ==
    /\ calls < 1
    /\ \/ CardCryptogramSCP01
       \/ HostCryptogramSCP01
       \/ CardCryptogramSCP02
       \/ HostCryptogramSCP02
       \/ CreateSessionKeySCP03
       \/ CardCryptogramSCP03
       \/ HostCryptogramSCP03
       \/ CardChallengeSCP03
       \/ MACRightDes3Des
       \/ GetKeyDataField
SpecKeys == InitKeys /\ [][NextKeys]_vars

\* Two sessions of one process.  pair.sec holds the two sessions as the
\* interleaved calls leave them, pair.alone the same sessions when each makes
\* only its own calls; pair.frame is what the array mac of GP211_check_R_MAC
\* holds from the call before, pair.aloneFrame what it holds when only the
\* session's own calls were made.
SessionB(level) ==
    [Session(GP211_SCP02, GP211_SCP02_IMPL_i15, level)
        EXCEPT !.encryptionSessionKey = "encryptionSessionKeyB",
               !.C_MACSessionKey = "C_MACSessionKeyB",
               !.R_MACSessionKey = "R_MACSessionKeyB",
               !.dataEncryptionSessionKey = "dataEncryptionSessionKeyB"]
PairNames == {"A", "B"}
PairLevels == {GP211_SCP02_SECURITY_LEVEL_C_MAC_R_MAC, GP211_SCP02_SECURITY_LEVEL_R_MAC}
NoFrame == <<>>

\* The array mac on entry: arbitrary bytes, or what the call before left.
StackFrom(frame, nd) ==
    IF nd.g = 1 /\ frame # NoFrame THEN frame ELSE Garbage(nd.g, 8)

PairTags(s) ==
    {Bytes(pair.sec[s].lastR_MAC, 0, 8), CtBytes(Len(oracle) + 1, 8)}
    \cup (IF pair.frame # NoFrame THEN {Bytes(pair.frame, 0, 8)} ELSE {})

PairResponses(s) == {<<209, 210>> \o tag \o <<144, 0>> : tag \in PairTags(s)}

PairReturn(s, op, actual, alone, out, aloneOut, frame, aloneFrame) ==
    /\ pair' = [pair EXCEPT !.sec[s] = actual.sec, !.alone[s] = alone.sec,
                            !.frame = frame, !.aloneFrame[s] = aloneFrame,
                            !.out = out, !.aloneOut = aloneOut]
    /\ secInfo' = actual.sec
    /\ prev' = pair.sec[s]
    /\ oracle' = alone.or
    /\ calls' = calls + 1
    /\ status' = actual.status
    /\ lastCall' = [op |-> op, session |-> s]
    /\ UNCHANGED <<apduCommand, capacity, wrappedApduCommand, wrappedApduCommandLength,
                   locals, before>>

PairCheckRMAC(s) ==
    \E a \in {Case3(128, 2)}, responseData \in PairResponses(s), nd \in RMacChoices :
        \E actual \in {GP211_check_R_MAC(oracle, a, Len(a), responseData, Len(responseData),
                                         pair.sec[s], StackFrom(pair.frame, nd), nd)} :
            \E alone \in {GP211_check_R_MAC(actual.or, a, Len(a), responseData,
                                            Len(responseData), pair.alone[s],
                                            StackFrom(pair.aloneFrame[s], nd), nd)} :
                PairReturn(s, "GP211_check_R_MAC", actual, alone,
                           [status |-> actual.status], [status |-> alone.status],
                           actual.mac, alone.mac)

PairWrapCommand(s) ==
    \E a \in {Case3(128, 2)}, d \in ChainRoom, nd \in {Choice("none", 0, FALSE)} :
        \E actual \in {wrap_command(a, Len(a), Len(a) + d, pair.sec[s], oracle, nd)} :
            \E alone \in {wrap_command(a, Len(a), Len(a) + d, pair.alone[s], actual.or, nd)} :
                PairReturn(s, "wrap_command", actual, alone,
                           [status |-> actual.status, wrappedApduCommand |-> actual.buf,
                            wrappedApduCommandLength |-> actual.outLen],
                           [status |-> alone.status, wrappedApduCommand |-> alone.buf,
                            wrappedApduCommandLength |-> alone.outLen],
                           NoFrame, NoFrame)

InitPair ==
    /\ \E la, lb \in PairLevels :
          LET two == [s \in PairNames |->
                         IF s = "A" THEN Session(GP211_SCP02, GP211_SCP02_IMPL_i15, la)
                         ELSE SessionB(lb)]
          IN pair = [active |-> TRUE, sec |-> two, alone |-> two, frame |-> NoFrame,
                     aloneFrame |-> [s \in PairNames |-> NoFrame],
                     out |-> [status |-> NotCalled], aloneOut |-> [status |-> NotCalled]]
    /\ secInfo = NoSession
    /\ oracle = <<>>
    /\ calls = 0
    /\ apduCommand = <<>>
    /\ capacity = 0
    /\ wrappedApduCommand = <<>>
    /\ wrappedApduCommandLength = 0
    /\ status = NotCalled
    /\ prev = secInfo
    /\ locals = NoLocals
    /\ before = [apduCommand |-> <<>>, status |-> NotCalled, C_MAC_ICV |-> <<>>,
                 mac |-> <<>>]
    /\ lastCall = NoCall
NextPair ==
    /\ calls < MaxCalls
    /\ \/ \E s \in PairNames : PairCheckRMAC(s)
       \/ \E s \in PairNames : PairWrapCommand(s)
SpecPair == InitPair /\ [][NextPair]_vars

---------------------------------------------------------------------------
(* What a call is seen to have done. *)

\* The call came back to its caller.
Returned == status \notin {NotCalled, Aborted}
Succeeded == status = OPGP_ERROR_STATUS_SUCCESS
Failed == Returned /\ ~Succeeded

\* The session the call worked on asked for no protection.
PassThrough(sec) == ~sec.present \/ IsNoSecureMessaging(sec.securityLevel)

\* The security level is one of those that include C_MAC.
IncludesCMAC(level) ==
    level \in {GP211_SCP01_SECURITY_LEVEL_C_MAC, GP211_SCP01_SECURITY_LEVEL_C_DEC_C_MAC,
               GP211_SCP02_SECURITY_LEVEL_C_MAC, GP211_SCP02_SECURITY_LEVEL_C_DEC_C_MAC,
               GP211_SCP02_SECURITY_LEVEL_C_MAC_R_MAC,
               GP211_SCP02_SECURITY_LEVEL_C_DEC_C_MAC_R_MAC,
               GP211_SCP03_SECURITY_LEVEL_C_MAC, GP211_SCP03_SECURITY_LEVEL_C_DEC_C_MAC}

\* The four short APDU shapes, by length and the byte at offset 4.
IsShortApdu(a) ==
    \/ Len(a) = 4
    \/ Len(a) = 5
    \/ Len(a) > 5 /\ (Len(a) = a[5] + 5 \/ Len(a) = a[5] + 6)

\* The data length of the last call's APDU.
DataLength == IF Len(apduCommand) >= 5 THEN apduCommand[5] ELSE 0

---------------------------------------------------------------------------
(* Claims. *)

\* C1: whenever wrap_command returns an error, lastCMAC of the session is what
\* it was before the call - for every protocol, level, APDU and capacity.
C1_ErrorKeepsLastCMAC ==
    (Failed /\ ~locals.ub) => secInfo.lastC_MAC = prev.lastC_MAC

\* C2: with no session, or a session at NO_SECURE_MESSAGING, and a capacity of
\* at least the input length, wrap_command succeeds, hands back the input
\* byte for byte with its length, and leaves the session as it was.
C2_PassThrough ==
    (status # NotCalled /\ PassThrough(prev) /\ capacity >= Len(apduCommand))
        => /\ Succeeded
           /\ wrappedApduCommandLength = Len(apduCommand)
           /\ Output = apduCommand
           /\ secInfo = prev

\* A misshapen APDU passed through a session at NO_SECURE_MESSAGING into a
\* buffer of exactly its length.
C2_Witness ==
    /\ Succeeded /\ prev.present /\ IsNoSecureMessaging(prev.securityLevel)
    /\ apduCommand = ApduOfLength(128, 5, 7)
    /\ Output = apduCommand
    /\ capacity = Len(apduCommand)

\* The ICV a call computes from a chaining value: its first 8 bytes, or their
\* encryption under the C-MAC session key.
IsICVOf(value, chain) ==
    IF IsICVEncrypted(prev)
    THEN \E i \in 1..Len(oracle) :
            /\ oracle[i].alg \in {"des_ecb", "des_ede_ecb"}
            /\ oracle[i].key[1] = prev.C_MACSessionKey
            /\ oracle[i].msg = Bytes(chain, 0, 8)
            /\ value = CtBytes(i - 1, 8)
    ELSE value = Bytes(chain, 0, 8)

\* C3: on SCP01 and SCP02 at a level with C-MAC, after a successful call
\* lastCMAC is the 8 MAC bytes of the wrapped APDU just produced; the ICV of
\* the next call is derived from exactly that value, nothing changing
\* lastCMAC in between; and the same APDU wrapped twice in a row gets a
\* different ICV the second time.
C3_CMacChain ==
    ( /\ Succeeded
      /\ prev.secureChannelProtocol \in {GP211_SCP01, GP211_SCP02}
      /\ IncludesCMAC(prev.securityLevel) )
        => /\ Bytes(secInfo.lastC_MAC, 0, 8) = AppendedMac
           /\ IsICVOf(locals.C_MAC_ICV, prev.lastC_MAC)
           /\ before.status = OPGP_ERROR_STATUS_SUCCESS
                 => /\ Bytes(prev.lastC_MAC, 0, 8) = before.mac
                    /\ IsICVOf(locals.C_MAC_ICV, before.mac)
                    /\ before.apduCommand = apduCommand
                          => locals.C_MAC_ICV # before.C_MAC_ICV

\* The same Case 3 APDU wrapped twice in a row on SCP02 with encrypted ICV.
C3_Witness ==
    /\ calls = 2 /\ Succeeded /\ before.status = OPGP_ERROR_STATUS_SUCCESS
    /\ prev.secureChannelProtocol = GP211_SCP02
    /\ prev.secureChannelProtocolImpl = GP211_SCP02_IMPL_i15
    /\ prev.securityLevel = GP211_SCP02_SECURITY_LEVEL_C_MAC
    /\ apduCommand = Case3(128, 8) /\ before.apduCommand = apduCommand
    /\ Bytes(secInfo.lastC_MAC, 0, 8) = AppendedMac
    /\ AppendedMac # before.mac

\* The APDU of the last call as the modified variants present it to the MAC:
\* class byte with bit 0x04, Lc raised by 8, then the data.
ModifiedApdu ==
    LET hasData == Len(apduCommand) > 5
    IN <<Or04(apduCommand[1]), apduCommand[2], apduCommand[3], apduCommand[4],
         ToByte((IF hasData THEN DataLength ELSE 0) + 8)>>
       \o (IF hasData THEN Bytes(apduCommand, 5, DataLength) ELSE <<>>)

\* C4: on SCP03 i00 at C_MAC the 8 bytes appended are the first 8 bytes of
\* AES-CMAC(S-MAC, lastCMAC (16 bytes) || modified header || Lc' || data), the
\* full 16 bytes become the new lastCMAC, and so the output is a function of
\* the keys, lastCMAC and the APDU alone.
C4_SCP03CMac ==
    ( /\ Succeeded
      /\ prev.secureChannelProtocol = GP211_SCP03
      /\ prev.secureChannelProtocolImpl = GP211_SCP03_IMPL_i00
      /\ prev.securityLevel = GP211_SCP03_SECURITY_LEVEL_C_MAC )
        => \E i \in 1..Len(oracle) :
              /\ oracle[i] = [alg |-> "cmac_aes", key |-> Key(prev.C_MACSessionKey, 16),
                              iv |-> <<>>, msg |-> prev.lastC_MAC \o ModifiedApdu]
              /\ AppendedMac = CtBytes(i - 1, 8)
              /\ secInfo.lastC_MAC = CtBytes(i - 1, 16)

\* Bytes that a cipher computed in this session.
IsCipherOutput(m) == \A j \in 1..Len(m) : m[j] >= 256

\* C5: a C-MAC is appended and lastCMAC overwritten exactly when the level
\* includes C_MAC: without it (SCP02 R_MAC alone) the APDU gains no MAC and
\* lastCMAC stays, with it (on SCP03 too, C_MAC_R_MAC and C_DEC_C_MAC_R_MAC
\* included) the 8 appended bytes are a freshly computed MAC whose full
\* value is stored in lastCMAC.
C5_CMacIffLevelHasCMac ==
    (Succeeded /\ ~PassThrough(prev) /\ locals.fault = "none")
        => IF IncludesCMAC(prev.securityLevel)
           THEN /\ Len(AppendedMac) = 8 /\ IsCipherOutput(AppendedMac)
                /\ Bytes(secInfo.lastC_MAC, 0, 8) = AppendedMac
                /\ prev.secureChannelProtocol = GP211_SCP03
                      => IsCipherOutput(secInfo.lastC_MAC)
           ELSE /\ wrappedApduCommandLength = Len(apduCommand)
                /\ Output = apduCommand
                /\ secInfo.lastC_MAC = prev.lastC_MAC

\* C6 as stated: whatever the session, an input that is none of the four
\* short shapes fails with UnrecognizedApdu, and only the four are accepted.
C6_OnlyFourShapes_AnySession ==
    Returned
        => /\ ~IsShortApdu(apduCommand) => status = OPGP_ERROR_UNRECOGNIZED_APDU_COMMAND
           /\ Succeeded => IsShortApdu(apduCommand)

\* The call got as far as looking at the shape of the APDU.
ReachesClassification ==
    /\ ~PassThrough(prev)
    /\ ~(/\ prev.secureChannelProtocol = GP211_SCP03
         /\ prev.securityLevel = GP211_SCP03_SECURITY_LEVEL_C_DEC_C_MAC)
    /\ capacity >= Len(apduCommand)

\* C6, amended: under a session with an active level (not SCP03 with
\* C_DEC_C_MAC) and a capacity of at least the input length, an input that
\* is none of the four short shapes fails with UnrecognizedApdu; under an
\* active level only the four shapes are ever accepted.
C6_OnlyFourShapes ==
    status # NotCalled
        => /\ (ReachesClassification /\ ~IsShortApdu(apduCommand))
                 => status = OPGP_ERROR_UNRECOGNIZED_APDU_COMMAND
           /\ (Succeeded /\ ~PassThrough(prev)) => IsShortApdu(apduCommand)

\* A 7-byte input announcing 5 data bytes, refused under SCP02 C_MAC.
C6_Witness ==
    /\ status = OPGP_ERROR_UNRECOGNIZED_APDU_COMMAND
    /\ prev.secureChannelProtocol = GP211_SCP02
    /\ prev.securityLevel = GP211_SCP02_SECURITY_LEVEL_C_MAC
    /\ apduCommand = ApduOfLength(128, 5, 7)
    /\ ~IsShortApdu(apduCommand)
    /\ secInfo = prev

\* The last call was made with a Case 3 APDU (header, Lc, data).
IsCase3 == Len(apduCommand) > 5 /\ Len(apduCommand) = DataLength + 5
IsCase4 == Len(apduCommand) > 5 /\ Len(apduCommand) = DataLength + 6

\* C7: on SCP02 at C_DEC_C_MAC a Case 3 APDU with 240 data bytes is accepted
\* and one with 241 is rejected with CommandSecureMessagingTooLarge.
C7_SCP02EncryptionLimit ==
    ( /\ status # NotCalled /\ prev.present
      /\ prev.secureChannelProtocol = GP211_SCP02
      /\ prev.securityLevel = GP211_SCP02_SECURITY_LEVEL_C_DEC_C_MAC
      /\ IsCase3 /\ capacity >= Len(apduCommand) + 24 )
        => /\ DataLength = 240 => status # OPGP_ERROR_COMMAND_SECURE_MESSAGING_TOO_LARGE
           /\ DataLength = 241 => status = OPGP_ERROR_COMMAND_SECURE_MESSAGING_TOO_LARGE

\* C8: at a level of C_MAC alone a Case 3 APDU with more than 247 data bytes
\* is rejected with CommandSecureMessagingTooLarge, one with up to 247 is not.
C8_CMacLimit ==
    ( /\ status # NotCalled /\ prev.present
      /\ prev.securityLevel \in {GP211_SCP01_SECURITY_LEVEL_C_MAC,
                                 GP211_SCP02_SECURITY_LEVEL_C_MAC,
                                 GP211_SCP03_SECURITY_LEVEL_C_MAC}
      /\ IsCase3 /\ capacity >= Len(apduCommand) + 24 )
        => (DataLength > 247 <=> status = OPGP_ERROR_COMMAND_SECURE_MESSAGING_TOO_LARGE)

\* The verdict of the length check on the Case 3 APDU with the data of the
\* last call's Case 4 APDU, under the same session.
Case3Sibling == SubSeq(apduCommand, 1, Len(apduCommand) - 1)
Case3SiblingTooLarge ==
    wrap_command(Case3Sibling, Len(Case3Sibling), Len(Case3Sibling) + 24, prev,
                 <<>>, Choice("none", 0, FALSE)).status
        = OPGP_ERROR_COMMAND_SECURE_MESSAGING_TOO_LARGE

\* C9: for every level and protocol the largest data length accepted is the
\* same for Case 4 as for Case 3: a Case 4 APDU is rejected as too large
\* exactly when the Case 3 APDU with the same data is.
C9_SameLimitCase3Case4 ==
    ( /\ status # NotCalled /\ ~PassThrough(prev)
      /\ IsCase4 /\ capacity >= Len(apduCommand) + 24 )
        => ( status = OPGP_ERROR_COMMAND_SECURE_MESSAGING_TOO_LARGE
                <=> Case3SiblingTooLarge )

\* C10 as stated: on SCP03 at C_DEC_C_MAC every call fails with
\* SCP03SecurityLevel3NotSupported and leaves lastCMAC unchanged.
C10_SCP03Level3Refused_AnyCapacity ==
    ( /\ status # NotCalled /\ prev.present
      /\ prev.secureChannelProtocol = GP211_SCP03
      /\ prev.securityLevel = GP211_SCP03_SECURITY_LEVEL_C_DEC_C_MAC )
        => /\ status = OPGP_ERROR_SCP03_SECURITY_LEVEL_3_NOT_SUPPORTED
           /\ secInfo.lastC_MAC = prev.lastC_MAC

\* C10, amended: on SCP03 at C_DEC_C_MAC every call with a capacity of at
\* least the input length fails with SCP03SecurityLevel3NotSupported, every
\* other with InsufficientBuffer, and either leaves lastCMAC unchanged.
C10_SCP03Level3Refused ==
    ( /\ status # NotCalled /\ prev.present
      /\ prev.secureChannelProtocol = GP211_SCP03
      /\ prev.securityLevel = GP211_SCP03_SECURITY_LEVEL_C_DEC_C_MAC )
        => /\ status = IF capacity >= Len(apduCommand)
                       THEN OPGP_ERROR_SCP03_SECURITY_LEVEL_3_NOT_SUPPORTED
                       ELSE OPGP_ERROR_INSUFFICIENT_BUFFER
           /\ secInfo.lastC_MAC = prev.lastC_MAC

\* A well-formed Case 3 APDU refused on SCP03 at C_DEC_C_MAC.
C10_Witness ==
    /\ status = OPGP_ERROR_SCP03_SECURITY_LEVEL_3_NOT_SUPPORTED
    /\ prev.secureChannelProtocol = GP211_SCP03
    /\ prev.securityLevel = GP211_SCP03_SECURITY_LEVEL_C_DEC_C_MAC
    /\ apduCommand = Case3(128, 8)
    /\ secInfo.lastC_MAC = prev.lastC_MAC

\* The data field of the last call's APDU, and its Le when it has one.
DataField == IF Len(apduCommand) > 5 THEN Bytes(apduCommand, 5, DataLength) ELSE <<>>
LeField == IF HasLe THEN <<apduCommand[Len(apduCommand)]>> ELSE <<>>

\* Header with the secure messaging bit, the length byte lcNew, the body.
Protected(lcNew, body) ==
    <<Or04(apduCommand[1]), apduCommand[2], apduCommand[3], apduCommand[4], lcNew>>
        \o body

\* The session is of a variant with the C-MAC on the modified APDU.
IsModifiedVariant(sec) ==
    \/ /\ sec.secureChannelProtocol = GP211_SCP02
       /\ sec.secureChannelProtocolImpl \in
             {GP211_SCP02_IMPL_i04, GP211_SCP02_IMPL_i05, GP211_SCP02_IMPL_i14,
              GP211_SCP02_IMPL_i15, GP211_SCP02_IMPL_i44, GP211_SCP02_IMPL_i45,
              GP211_SCP02_IMPL_i54, GP211_SCP02_IMPL_i55}
    \/ /\ sec.secureChannelProtocol = GP211_SCP03
       /\ sec.secureChannelProtocolImpl = GP211_SCP03_IMPL_i00

\* The session is of a variant with the C-MAC on the unmodified APDU.
IsUnmodifiedVariant(sec) ==
    /\ sec.secureChannelProtocol = GP211_SCP02
    /\ sec.secureChannelProtocolImpl \in
          {GP211_SCP02_IMPL_i0A, GP211_SCP02_IMPL_i0B,
           GP211_SCP02_IMPL_i1A, GP211_SCP02_IMPL_i1B}

IsCMacOnlyLevel(level) ==
    level \in {GP211_SCP01_SECURITY_LEVEL_C_MAC, GP211_SCP02_SECURITY_LEVEL_C_MAC,
               GP211_SCP03_SECURITY_LEVEL_C_MAC}

\* C11: for the variants with the C-MAC on the modified APDU at a level of
\* C_MAC alone, the wrapped APDU is CLA|0x04, INS, P1, P2, Lc', data, the
\* 8-byte MAC, then Le if the input had one, with Lc' = Lc + 8 (8 for Case 1
\* and Case 2), and the MAC is computed over exactly the modified header,
\* Lc' and the data.
C11_ModifiedApduLayout ==
    ( /\ Succeeded /\ prev.present /\ IsModifiedVariant(prev)
      /\ IsCMacOnlyLevel(prev.securityLevel)
      /\ capacity >= Len(apduCommand) + 24 )
        => LET lcNew == Len(DataField) + 8
           IN /\ Len(AppendedMac) = 8
              /\ Output = Protected(lcNew, DataField) \o AppendedMac \o LeField
              /\ locals.macInput = Protected(lcNew, DataField)

\* The last call's APDU without its Le.
ApduWithoutLe ==
    IF Len(apduCommand) = 5 \/ IsCase4
    THEN SubSeq(apduCommand, 1, Len(apduCommand) - 1) ELSE apduCommand

\* C12: for the variants with the C-MAC on the unmodified APDU the MAC is
\* computed over exactly the whole original APDU without Le (header, then Lc
\* and the data when present), for all four cases, and the header is
\* rewritten only afterwards.
C12_UnmodifiedApduMacInput ==
    ( /\ status # NotCalled /\ prev.present /\ IsUnmodifiedVariant(prev)
      /\ IsCMacOnlyLevel(prev.securityLevel)
      /\ IsShortApdu(apduCommand) /\ locals.fault = "none"
      /\ capacity >= Len(apduCommand) + 24 )
        => /\ Succeeded
           /\ locals.macInput = ApduWithoutLe
           /\ Bytes(Output, 0, 5)
                 = Protected(ToByte(Len(DataField) + 8), <<>>)

\* The ciphertext the table holds for a CBC encryption of msg under the
\* session's encryption key with the zero ICV, if it was computed.
IsCbcCiphertextOf(ct, msg) ==
    \E i \in 1..Len(oracle) :
        /\ oracle[i] = [alg |-> "des_ede_cbc", key |-> Key(prev.encryptionSessionKey, 16),
                        iv |-> icv, msg |-> msg]
        /\ ct = CtBytes(i - 1, Len(msg))

\* The bytes between the length byte and the MAC of the wrapped APDU.
OutputBody ==
    LET n == wrappedApduCommandLength - 5 - 8 - (IF HasLe THEN 1 ELSE 0)
    IN [i \in 1..n |-> Output[5 + i]]

\* C13: on SCP02 at C_DEC_C_MAC or C_DEC_C_MAC_R_MAC the wrapped Case 3 or
\* Case 4 APDU is CLA|0x04, INS, P1, P2, Lc = |ct| + 8, ct, MAC, then the
\* original Le for Case 4; ct is the CBC encryption under S-ENC of exactly
\* the original data field with the padding 80 00.. always appended, and
\* the MAC is the one computed on the plaintext before the encryption.
C13_SCP02EncryptedLayout ==
    ( /\ Succeeded /\ prev.present
      /\ prev.secureChannelProtocol = GP211_SCP02
      /\ prev.securityLevel \in {GP211_SCP02_SECURITY_LEVEL_C_DEC_C_MAC,
                                 GP211_SCP02_SECURITY_LEVEL_C_DEC_C_MAC_R_MAC}
      /\ (IsCase3 \/ IsCase4)
      /\ capacity >= Len(apduCommand) + 24 )
        => /\ IsCbcCiphertextOf(OutputBody, PadAlways(DataField, Len(DataField)))
           /\ Output = Protected(Len(OutputBody) + 8, OutputBody) \o AppendedMac \o LeField
           /\ AppendedMac = Bytes(locals.mac, 0, 8)
           /\ \A j \in 1..Len(locals.macInput) : locals.macInput[j] < 256

\* C14: on SCP01 at C_DEC_C_MAC the plaintext given to the 3DES-CBC
\* encryption is exactly the original data field (no header byte, no Lc),
\* padded with 80 00.. only when its length is no multiple of 8.
C14_SCP01Plaintext ==
    ( /\ status # NotCalled /\ prev.present
      /\ prev.secureChannelProtocol = GP211_SCP01
      /\ prev.securityLevel = GP211_SCP01_SECURITY_LEVEL_C_DEC_C_MAC
      /\ locals.encDone )
        => /\ locals.encInput = DataField
           /\ locals.fault = "none"
                 => \E i \in 1..Len(oracle) :
                       /\ oracle[i].alg = "des_ede_cbc"
                       /\ oracle[i].key = Key(prev.encryptionSessionKey, 16)
                       /\ oracle[i].iv = icv
                       /\ oracle[i].msg = PadIfNeeded(DataField, Len(DataField))

\* The plaintext of the SCP01 encryption: the original length byte, then
\* the data field.
LengthAndData == <<Len(DataField)>> \o DataField

\* C14, amended: on SCP01 at C_DEC_C_MAC the plaintext given to the 3DES-CBC
\* encryption is the original Lc byte (0 for Case 1 and Case 2) followed by
\* the original data field, padded with 80 00.. only when the length of
\* that, Lc + 1, is no multiple of 8; no header byte is part of it.
C14_SCP01PlaintextWithLc ==
    ( /\ status # NotCalled /\ prev.present
      /\ prev.secureChannelProtocol = GP211_SCP01
      /\ prev.securityLevel = GP211_SCP01_SECURITY_LEVEL_C_DEC_C_MAC
      /\ locals.encDone )
        => /\ locals.encInput = LengthAndData
           /\ locals.fault = "none"
                 => \E i \in 1..Len(oracle) :
                       /\ oracle[i].alg = "des_ede_cbc"
                       /\ oracle[i].key = Key(prev.encryptionSessionKey, 16)
                       /\ oracle[i].iv = icv
                       /\ oracle[i].msg = PadIfNeeded(LengthAndData, Len(LengthAndData))

\* A Case 3 APDU with 239 data bytes encrypted on SCP01: 240 bytes of
\* plaintext, a multiple of 8, so none of padding.
C14_Witness ==
    /\ Succeeded /\ locals.encDone
    /\ prev.secureChannelProtocol = GP211_SCP01
    /\ prev.securityLevel = GP211_SCP01_SECURITY_LEVEL_C_DEC_C_MAC
    /\ apduCommand = Case3(128, 239)
    /\ Len(locals.encInput) = 240 /\ locals.encInput[1] = 239
    /\ Len(OutputBody) = 240

\* C15: a successful call returns a wrapped APDU at most 16 bytes longer
\* than the original (8 of MAC, at most 7 of padding, 1 of Lc), for every
\* case, protocol and level.
C15_GrowthAtMost16 ==
    (Succeeded /\ ~locals.ub)
        => wrappedApduCommandLength <= Len(apduCommand) + 16

\* value is the ECB encryption, by the cipher alg with a key of keyLength
\* bytes of the C-MAC session key, of the first 8 bytes of chain.
IsEcbOf(value, alg, keyLength, chain) ==
    \E i \in 1..Len(oracle) :
        /\ oracle[i] = [alg |-> alg, key |-> Key(prev.C_MACSessionKey, keyLength),
                        iv |-> <<>>, msg |-> Bytes(chain, 0, 8)]
        /\ value = CtBytes(i - 1, 8)

\* C16: the ICV of the C-MAC is single-DES-ECB(first 8 bytes of the C-MAC
\* key, lastCMAC) exactly for the SCP02 variants i14, i15, i1A, i1B, i54 and
\* i55, 2-key-3DES-ECB(C-MAC key, lastCMAC) for SCP01 i15, and lastCMAC
\* itself for every other SCP01/SCP02 variant; computing it never changes
\* lastCMAC.
C16_ICVRule ==
    ( /\ status # NotCalled /\ prev.present
      /\ prev.secureChannelProtocol \in {GP211_SCP01, GP211_SCP02} )
        => /\ locals.macDone
                 => IF /\ prev.secureChannelProtocol = GP211_SCP02
                       /\ prev.secureChannelProtocolImpl \in
                             {GP211_SCP02_IMPL_i14, GP211_SCP02_IMPL_i15,
                              GP211_SCP02_IMPL_i1A, GP211_SCP02_IMPL_i1B,
                              GP211_SCP02_IMPL_i54, GP211_SCP02_IMPL_i55}
                    THEN IsEcbOf(locals.C_MAC_ICV, "des_ecb", 8, prev.lastC_MAC)
                    ELSE IF /\ prev.secureChannelProtocol = GP211_SCP01
                            /\ prev.secureChannelProtocolImpl = GP211_SCP01_IMPL_i15
                    THEN IsEcbOf(locals.C_MAC_ICV, "des_ede_ecb", 16, prev.lastC_MAC)
                    ELSE locals.C_MAC_ICV = Bytes(prev.lastC_MAC, 0, 8)
           /\ (locals.fault = "icv" /\ status = OPGP_ERROR_CRYPT) => secInfo = prev
           /\ secInfo.lastC_MAC # prev.lastC_MAC
                 => Bytes(secInfo.lastC_MAC, 0, 8) = Bytes(locals.mac, 0, 8)

\* An encrypted ICV on SCP01 i15, used for the MAC of a Case 3 APDU.
C16_Witness ==
    /\ Succeeded /\ locals.macDone
    /\ prev.secureChannelProtocol = GP211_SCP01
    /\ prev.secureChannelProtocolImpl = GP211_SCP01_IMPL_i15
    /\ apduCommand = Case3(128, 8)
    /\ IsEcbOf(locals.C_MAC_ICV, "des_ede_ecb", 16, prev.lastC_MAC)
    /\ locals.C_MAC_ICV # Bytes(prev.lastC_MAC, 0, 8)

\* The last call validated a receipt.
ReceiptCalled ==
    lastCall.op \in {"validate_delete_receipt", "validate_install_receipt",
                     "validate_load_receipt"}

\* C17: a receipt validation without a failing primitive returns success
\* exactly when the first 8 bytes of the receipt are the Retail MAC, under
\* the receipt key and a zero IV, of V = 02, counter high, counter low,
\* |uid|, uid, then each AID behind its length, and ValidationFailed
\* otherwise; so the card's receipt over V always validates.
C17_ReceiptOverValidationData ==
    (ReceiptCalled /\ lastCall.fault = "none")
        => LET V == CardValidationData(lastCall.confirmationCounter,
                                       lastCall.cardUniqueData, lastCall.AIDs)
               tag == Bytes(RetailMac(oracle, ReceiptKey, icv, V).out, 0, 8)
           IN status = IF Bytes(lastCall.receipt, 0, 8) = tag
                       THEN OPGP_ERROR_STATUS_SUCCESS
                       ELSE OPGP_ERROR_VALIDATION_FAILED

\* The last call was GP211_check_R_MAC, and it got as far as the R-MAC.
CheckCalled == lastCall.op = "GP211_check_R_MAC"
CheckComputed == CheckCalled /\ lastCall.computed
IsRMacLevel(level) ==
    level \in {GP211_SCP02_SECURITY_LEVEL_R_MAC, GP211_SCP02_SECURITY_LEVEL_C_MAC_R_MAC,
               GP211_SCP02_SECURITY_LEVEL_C_DEC_C_MAC_R_MAC}

\* The response of the last check: its data without R-MAC and status word,
\* the R-MAC, the status word.
ResponseBody == Bytes(lastCall.responseData, 0, Len(lastCall.responseData) - 10)
ResponseRMac == Bytes(lastCall.responseData, Len(lastCall.responseData) - 10, 8)
ResponseSW == Bytes(lastCall.responseData, Len(lastCall.responseData) - 2, 2)

\* header, Lc, command data, response length, response data, status word.
RDataOf(body) ==
    Bytes(apduCommand, 0, 4) \o <<Len(DataField)>> \o DataField
        \o <<Len(body) % 256>> \o body \o ResponseSW

\* C18: the R-MAC that GP211_check_R_MAC verifies is the Retail MAC under
\* the R-MAC session key, with lastR_MAC as IV, of command header, Lc,
\* command data field, response length mod 256, response data and status
\* word, the response data being without the received R-MAC.
C18_RMacOverCommandAndResponse ==
    ( /\ CheckComputed /\ lastCall.fault = "none"
      /\ Len(lastCall.responseData) >= 10 )
        => /\ lastCall.r_MacData = RDataOf(ResponseBody)
           /\ Bytes(lastCall.mac, 0, 8)
                = Bytes(RetailMac(oracle, prev.R_MACSessionKey, prev.lastR_MAC,
                                  RDataOf(ResponseBody)).out, 0, 8)

\* C19: lastR_MAC changes only in a successful GP211_check_R_MAC at an
\* R-MAC level, and then to the MAC computed in that call; a received R-MAC
\* that differs from the computed one gives ValidationRMAC and leaves
\* lastR_MAC; without an R-MAC level or without secInfo the call succeeds
\* and changes nothing.
C19_LastRMacOnlyBySuccessfulCheck ==
    /\ secInfo.lastR_MAC # prev.lastR_MAC
          => /\ CheckComputed /\ Succeeded
             /\ prev.present /\ IsRMacLevel(prev.securityLevel)
             /\ lastCall.computation = OPGP_ERROR_STATUS_SUCCESS
             /\ secInfo.lastR_MAC
                  = Bytes(RetailMac(oracle, prev.R_MACSessionKey, prev.lastR_MAC,
                                    lastCall.r_MacData).out, 0, 8)
    /\ ( /\ CheckComputed /\ lastCall.computation = OPGP_ERROR_STATUS_SUCCESS
         /\ Len(lastCall.responseData) >= 10
         /\ ResponseRMac # Bytes(lastCall.mac, 0, 8) )
          => status = GP211_ERROR_VALIDATION_R_MAC /\ secInfo = prev
    /\ (CheckCalled /\ (~prev.present \/ ~IsRMacLevel(prev.securityLevel)))
          => Succeeded /\ secInfo = prev

\* C20: after a primitive failed, wrap_command returns its error under every
\* protocol, and GP211_check_R_MAC returns the error of the R-MAC
\* computation and stores nothing.
C20_NoSuccessAfterPrimitiveFailure ==
    /\ (lastCall.op = "wrap_command" /\ locals.macDone /\ locals.fault = "mac")
          => status = OPGP_ERROR_CRYPT
    /\ ( /\ CheckComputed /\ lastCall.computation # OPGP_ERROR_STATUS_SUCCESS
         /\ Len(lastCall.responseData) >= 10 )
          => status = lastCall.computation /\ secInfo = prev

\* C21: when malloc fails, each receipt validator returns the out-of-memory
\* status, never an unset status or success.
C21_OutOfMemoryStatus ==
    (ReceiptCalled /\ lastCall.fault = "malloc") => status = ENOMEM

\* C27: a successful wrap_command reports a wrapped length that is at most
\* the capacity passed in, for every APDU case, with and without
\* encryption; a smaller capacity gives InsufficientBuffer.
C27_WithinCapacity ==
    Succeeded => wrappedApduCommandLength <= capacity

\* The bytes of the output after the Lc byte, up to the Le byte if any.
BytesAfterLc == wrappedApduCommandLength - 5 - (IF HasLe THEN 1 ELSE 0)

\* C28: after a successful wrap_command at an active security level the Lc
\* byte of the output is the number of bytes that follow it up to Le, with
\* no wrap-around modulo 256.
C28_LcIsTrueLength ==
    ( /\ Succeeded /\ ~PassThrough(prev) /\ IncludesCMAC(prev.securityLevel)
      /\ capacity >= Len(apduCommand) + 24 )
        => Output[5] = BytesAfterLc

\* The messages that were encrypted under the session's encryption key.
Encrypted ==
    {oracle[i].msg : i \in {j \in 1..Len(oracle) :
                               /\ oracle[j].alg = "des_ede_cbc"
                               /\ oracle[j].key = Key(prev.encryptionSessionKey, 16)}}

\* C29: the ciphertext of the encryption step, padding included, is at most
\* 240 bytes for every APDU that passed the length check.
C29_CiphertextFitsBuffer ==
    (status # NotCalled /\ locals.encDone /\ capacity >= Len(apduCommand) + 24)
        => \A msg \in Encrypted : Len(msg) <= 240

\* The message each SCP01 and SCP02 cryptogram is said to be computed over.
CryptogramCalled ==
    lastCall.op \in {"calculate_card_cryptogram_SCP01", "calculate_host_cryptogram_SCP01",
                     "calculate_card_cryptogram_SCP02", "calculate_host_cryptogram_SCP02"}
CryptogramMessage ==
    CASE lastCall.op = "calculate_card_cryptogram_SCP01"
           -> lastCall.hostChallenge \o lastCall.cardChallenge
      [] lastCall.op = "calculate_host_cryptogram_SCP01"
           -> lastCall.cardChallenge \o lastCall.hostChallenge
      [] lastCall.op = "calculate_card_cryptogram_SCP02"
           -> lastCall.hostChallenge \o lastCall.sequenceCounter \o lastCall.cardChallenge
      [] lastCall.op = "calculate_host_cryptogram_SCP02"
           -> lastCall.sequenceCounter \o lastCall.cardChallenge \o lastCall.hostChallenge

\* C23 as stated: a successful SCP01 or SCP02 card or host cryptogram is the
\* Retail MAC (single DES-CBC on all blocks but the last, 3DES on the last)
\* under S_ENC with zero IV over the challenges in the stated order.
C23_CryptogramIsRetailMac ==
    (CryptogramCalled /\ Succeeded)
        => lastCall.out
             = Bytes(RetailMac(oracle, "S_ENC", icv, CryptogramMessage).out, 0, 8)

\* C23, amended: a successful SCP01 or SCP02 card or host cryptogram is the
\* last 8-byte block of 3DES-CBC on every block, under S_ENC with zero IV,
\* over the challenges in the stated order followed by the padding block
\* 80 00 00 00 00 00 00 00.
C23_CryptogramIsFullTripleDesMac ==
    (CryptogramCalled /\ Succeeded)
        => \E i \in 1..Len(oracle) :
              /\ oracle[i] = [alg |-> "des_ede_cbc", key |-> Key("S_ENC", 16), iv |-> icv,
                              msg |-> CryptogramMessage \o padding]
              /\ Len(CryptogramMessage) = 16
              /\ lastCall.out = Bytes(CtBytes(i - 1, 24), 16, 8)

C23_Witness ==
    /\ lastCall.op = "calculate_card_cryptogram_SCP02"
    /\ Succeeded
    /\ lastCall.hostChallenge = Run(32, 8)
    /\ lastCall.out = Bytes(CtBytes(0, 24), 16, 8)

\* The 32-byte derivation block of the SCP03 key and cryptogram functions.
DerivationCalled ==
    lastCall.op \in {"create_session_key_SCP03", "calculate_card_cryptogram_SCP03",
                     "calculate_host_cryptogram_SCP03"}
DerivationBlock(constant, lengthLow) ==
    <<0, 0, 0, 0, 0, 0, 0, 0, 0, 0, 0, constant, 0, 0, lengthLow, 1>>
        \o lastCall.hostChallenge \o lastCall.cardChallenge

\* C24: a successful create_session_key_SCP03 returns the full 16-byte
\* AES-128-CMAC under the static key of the 32-byte block 11 zero bytes,
\* derivation constant, 00 00 80 01, hostChallenge, cardChallenge; a
\* successful SCP03 card or host cryptogram is the first 8 bytes of the CMAC
\* of the same block with length field 00 40 and constant 00 (card) or 01
\* (host).
C24_SCP03DerivationBlock ==
    (DerivationCalled /\ Succeeded)
        => LET isKey == lastCall.op = "create_session_key_SCP03"
               constant == IF isKey THEN lastCall.constant
                           ELSE IF lastCall.op = "calculate_card_cryptogram_SCP03" THEN 0
                           ELSE 1
               block == DerivationBlock(constant, IF isKey THEN 128 ELSE 64)
           IN \E i \in 1..Len(oracle) :
                 /\ oracle[i] = [alg |-> "cmac_aes", key |-> Key(lastCall.key, 16),
                                 iv |-> <<>>, msg |-> block]
                 /\ Len(block) = 32
                 /\ lastCall.out = CtBytes(i - 1, IF isKey THEN 16 ELSE 8)

C24_Witness ==
    /\ lastCall.op = "create_session_key_SCP03"
    /\ Succeeded
    /\ lastCall.constant = 6
    /\ lastCall.hostChallenge = Run(32, 8)
    /\ lastCall.cardChallenge = Run(48, 8)
    /\ lastCall.out = CtBytes(0, 16)

\* C25: calculate_card_challenge_SCP03 never writes past its 35-byte
\* derivation block, whatever invokingAIDLength it is given: the block it
\* builds has at most 35 bytes and an AID longer than 16 bytes is not copied.
C25_ChallengeBlockWithin35 ==
    lastCall.op = "calculate_card_challenge_SCP03"
        => /\ ~lastCall.ub
           /\ lastCall.written <= 35
           /\ status # Aborted

\* C26: in a successful calculate_MAC_right_des_3des over a message with
\* leading full blocks, the final 3DES step starts from the single-DES-CBC
\* result of those blocks (right half key, zero IV), so that the MAC depends
\* on every block.
C26_RightMacChained ==
    ( /\ lastCall.op = "calculate_MAC_right_des_3des" /\ Succeeded
      /\ Len(lastCall.message) >= 8 )
        => LET n == Len(lastCall.message) \div 8
               rest == Bytes(lastCall.message, 8 * n, Len(lastCall.message) % 8)
                         \o SubSeq(padding, 1, 8 - (Len(lastCall.message) % 8))
           IN \E i, j \in 1..Len(oracle) :
                 /\ oracle[i] = [alg |-> "des_cbc", key |-> RightHalf(lastCall.key),
                                 iv |-> icv, msg |-> Bytes(lastCall.message, 0, 8 * n)]
                 /\ oracle[j] = [alg |-> "des_ede_cbc", key |-> Key(lastCall.key, 16),
                                 iv |-> Bytes(CtBytes(i - 1, 8 * n), 8 * n - 8, 8),
                                 msg |-> rest]
                 /\ lastCall.out = CtBytes(j - 1, 8)

\* C30: get_key_data_field writes at most the capacity given in
\* *keyDataFieldLength: on success the returned field length is no larger
\* than the capacity, and when the field does not fit the function returns
\* OPGP_ERROR_INSUFFICIENT_BUFFER with nothing written, for isSensitive = 0
\* and isSensitive # 0.
C30_KeyDataFieldWithinCapacity ==
    lastCall.op = "get_key_data_field"
        => /\ Succeeded => /\ lastCall.keyDataFieldLength <= lastCall.cap
                           /\ \A i \in 1..lastCall.cap :
                                 i > lastCall.keyDataFieldLength
                                    => lastCall.keyDataField[i] = Unwritten
           /\ Len(lastCall.keyData) + 6 > lastCall.cap
                 => /\ status = OPGP_ERROR_INSUFFICIENT_BUFFER
                    /\ \A i \in 1..lastCall.cap : lastCall.keyDataField[i] = Unwritten

\* C22: two sessions share no mutable state: in any interleaving of
\* wrap_command and GP211_check_R_MAC calls on two sessions, each call
\* returns what it returns when its session makes only its own calls, and
\* each session's secInfo (lastC_MAC and lastR_MAC included) is as when the
\* session runs alone.
C22_SessionsShareNothing ==
    pair.active => /\ pair.out = pair.aloneOut
                   /\ pair.sec = pair.alone

=============================================================================
